---- MODULE Spec2Model ----
(***************************************************************************)
(* A model of the presence and classification core of efferve:             *)
(* MAC normalisation (registry/store.py), the device upsert and the        *)
(* classification heuristic (registry/store.py), the ingestion handler     *)
(* (main.py), device assignment (persona/engine.py) and the alert rule     *)
(* CRUD (alerts/manager.py).                                               *)
(*                                                                         *)
(* Python strings that the code takes apart (MAC addresses) are sequences  *)
(* of one-character strings; opaque strings (SSID, vendor, names) are TLA+ *)
(* strings.  Timestamps are whole seconds since an arbitrary epoch.        *)
(***************************************************************************)
EXTENDS Integers, Sequences, FiniteSets, TLC

VARIABLES
    devices,      \* the Device table: normalized MAC -> row
    lastEvent,    \* the BeaconEvent of the last ingestion (NoEvent before any)
    links,        \* the PersonDevice table: set of [person_id, mac_address]
    rules,        \* the AlertRule table: id -> row
    nmAddr,       \* normalize_mac check: the address the inputs spell
    nmIn,         \* normalize_mac check: the argument
    nmOut,        \* normalize_mac check: the result (None before the first call)
    nmTwice,      \* normalize_mac check: the result for nmOut (None before that call)
    nmPrev,       \* normalize_mac check: the result for the spelling given before
    clDev,        \* classify_device check: the device row given
    clOut,        \* classify_device check: the result ("" before the call)
    laOctet,      \* is_locally_administered check: the first octet, 0..255
    laIn,         \* is_locally_administered check: the argument
    laCalled,     \* is_locally_administered check: the call was made
    laOut,        \* is_locally_administered check: the result
    now,                  \* the wall clock, datetime.now(UTC), in seconds
    _previously_present,  \* registry/store.py: the MACs present at the last pass
    presence_log,         \* the PresenceLog table, in the order of its ids
    changes,              \* what the last detect_presence_changes returned
    posted,               \* the webhook POSTs of the last handler invocation
    pc,           \* per thread: where its handler invocation stands
    local,        \* per thread: the local variables of its handler invocation
    session_open, \* the handler's "with Session(engine)" block is open
    inbox,        \* the events of a backend's poll still to be delivered
    outstanding,  \* the payloads dispatch_webhooks has still to POST
    backend,          \* the backend object followed: which class it is
    _running,         \* its self._running
    _task,            \* its self._task: a task id, 0 for None
    tasks,            \* the ids of its asyncio tasks that have not completed
    cancel_requested, \* the ids of the tasks on which cancel() was called
    capture_threads,  \* the ids of the tasks whose AsyncSniffer thread runs
    stop_returned,    \* stop() has returned and start() was not called since
    fired_after_stop, \* a callback was fired while stop_returned
    failed_at,    \* the call that raised in the last handler invocation, or "none"
    propagated,   \* an exception has left _handle_beacon_event
    error_log,    \* what logger.exception / logger.error have recorded
    persons,      \* the Person table: the ids of its rows
    evCall,       \* the last evaluate_presence_change call: arguments and result
    dpCall,       \* the last dispatch_webhooks call: payloads, responses, result
    asCall,       \* the last persona call: arguments and how it ended
    _processed_event_ids, \* RuckusSniffer._processed_event_ids, oldest first
    poll_log,     \* the client events that passed the id check, with what was done
    sightings,    \* the timestamps of the events ingested for one device, in order
    requests      \* per person id, the assign_device call in progress for it

regVars == <<devices, lastEvent>>
storeVars == <<links, rules>>
nmVars == <<nmAddr, nmIn, nmOut, nmTwice, nmPrev>>
clVars == <<clDev, clOut>>
laVars == <<laOctet, laIn, laCalled, laOut>>
presVars == <<now, _previously_present, presence_log, changes, posted>>
thrVars == <<pc, local>>
whVars == <<session_open, inbox, outstanding>>
snVars == <<backend, _running, _task, tasks, cancel_requested, capture_threads,
            stop_returned, fired_after_stop>>
errVars == <<failed_at, propagated, error_log>>
apiVars == <<persons, evCall, dpCall, asCall>>
rkVars == <<_processed_event_ids, poll_log>>
sgVars == <<sightings>>
rqVars == <<requests>>
moreVars == <<laVars, presVars, thrVars, whVars, snVars, errVars, apiVars, rkVars, sgVars,
              rqVars>>
vars == <<devices, lastEvent, links, rules,
          nmAddr, nmIn, nmOut, nmTwice, nmPrev, clDev, clOut,
          laOctet, laIn, laCalled, laOut,
          now, _previously_present, presence_log, changes, posted,
          pc, local, session_open, inbox, outstanding,
          backend, _running, _task, tasks, cancel_requested, capture_threads,
          stop_returned, fired_after_stop,
          failed_at, propagated, error_log,
          persons, evCall, dpCall, asCall,
          _processed_event_ids, poll_log, sightings, requests>>

(***************************************************************************)
(* Python values                                                           *)
(***************************************************************************)

\* Python's None where a character sequence is expected: no Python string
\* is this sequence, whose one element is not a single character.
None == <<"None">>

\* Python's None where an opaque string (ssid, vendor, name) is expected.
NoneStr == "<None>"

\* Python's None where an integer id is expected (ids start at 1).
NoneId == 0

\* bool(s) of an optional opaque string: None and "" are falsy.
Truthy(s) == s \notin {NoneStr, ""}

HexLower == {"0","1","2","3","4","5","6","7","8","9","a","b","c","d","e","f"}
HexUpper == {"0","1","2","3","4","5","6","7","8","9","A","B","C","D","E","F"}

\* str.upper() on one character of a MAC spelling.
UpperChar(c) ==
    CASE c = "a" -> "A" [] c = "b" -> "B" [] c = "c" -> "C"
      [] c = "d" -> "D" [] c = "e" -> "E" [] c = "f" -> "F"
      [] OTHER -> c

\* s.upper()
str_upper(s) == [i \in 1..Len(s) |-> UpperChar(s[i])]

\* s.replace(old, new) for one-character old and new.
str_replace(s, old, new) == [i \in 1..Len(s) |-> IF s[i] = old THEN new ELSE s[i]]

\* s.replace(old, "") for a one-character old.
str_remove(s, old) == SelectSeq(s, LAMBDA c : c # old)

\* c in s
str_contains(s, c) == \E i \in 1..Len(s) : s[i] = c

\* ":".join(cleaned[i : i + 2] for i in range(0, 12, 2)) for len(cleaned) == 12
join_pairs(cleaned) ==
    [k \in 1..17 |-> IF k % 3 = 0 THEN ":"
                     ELSE cleaned[2 * ((k - 1) \div 3) + ((k - 1) % 3) + 1]]

\* s.split(sep)[0]
split_first(s, sep) ==
    LET at == {i \in 1..Len(s) : s[i] = sep}
    IN  IF at = {} THEN s
        ELSE SubSeq(s, 1, (CHOOSE i \in at : \A j \in at : i <= j) - 1)

HexDigitValue(c) ==
    CASE c \in {"0"} -> 0 [] c \in {"1"} -> 1 [] c \in {"2"} -> 2 [] c \in {"3"} -> 3
      [] c \in {"4"} -> 4 [] c \in {"5"} -> 5 [] c \in {"6"} -> 6 [] c \in {"7"} -> 7
      [] c \in {"8"} -> 8 [] c \in {"9"} -> 9
      [] c \in {"a", "A"} -> 10 [] c \in {"b", "B"} -> 11 [] c \in {"c", "C"} -> 12
      [] c \in {"d", "D"} -> 13 [] c \in {"e", "E"} -> 14 [] c \in {"f", "F"} -> 15

\* int(s, 16) for a string of hex digits
RECURSIVE int16(_)
int16(s) ==
    IF Len(s) = 0 THEN 0
    ELSE 16 * int16(SubSeq(s, 1, Len(s) - 1)) + HexDigitValue(s[Len(s)])

(***************************************************************************)
(* registry/store.py: MAC normalisation and identity                       *)
(***************************************************************************)

\* normalize_mac without the upper() call.
normalize_mac_no_upper(mac) ==
    LET cleaned == str_remove(str_replace(mac, "-", ":"), ".")
    IN  IF ~str_contains(cleaned, ":") /\ Len(cleaned) = 12
        THEN join_pairs(cleaned)
        ELSE cleaned

normalize_mac(mac) ==
    LET cleaned == str_remove(str_replace(str_upper(mac), "-", ":"), ".")
    IN  IF ~str_contains(cleaned, ":") /\ Len(cleaned) = 12
        THEN join_pairs(cleaned)
        ELSE cleaned

\* is_locally_administered testing bit 0x04 of the first octet.
is_locally_administered_bit2(mac) ==
    LET first_octet == int16(split_first(normalize_mac(mac), ":"))
    IN  (first_octet \div 4) % 2 = 1

\* is_locally_administered testing bit 0x01 of the first octet.
is_locally_administered_bit0(mac) ==
    LET first_octet == int16(split_first(normalize_mac(mac), ":"))
    IN  first_octet % 2 = 1

is_locally_administered(mac) ==
    LET first_octet == int16(split_first(normalize_mac(mac), ":"))
    IN  (first_octet \div 2) % 2 = 1

(***************************************************************************)
(* The MAC arguments: a few addresses, each in every supported spelling    *)
(***************************************************************************)

\* 08:00:27:aa:bb:cc, a burned-in address (tests/test_registry_store.py)
AddrBurned == <<"0","8","0","0","2","7","a","a","b","b","c","c">>
\* fa:12:34:56:78:9a, a locally administered address (tests/test_registry_store.py)
AddrRandom == <<"f","a","1","2","3","4","5","6","7","8","9","a">>
\* aa:bb:cc:dd:ee:ff, the address of the tests of normalize_mac
AddrTest == <<"a","a","b","b","c","c","d","d","e","e","f","f">>

Addresses == {AddrBurned, AddrRandom, AddrTest}

\* The 12 digits with sep between the groups of `group` digits.
Grouped(addr, group, sep) ==
    [k \in 1..(12 + (12 \div group) - 1) |->
        IF k % (group + 1) = 0 THEN sep
        ELSE addr[group * ((k - 1) \div (group + 1)) + ((k - 1) % (group + 1)) + 1]]

\* Colon- and dash-separated octets, dot-separated groups of four digits and
\* dot-separated octets, bare digits; in lowercase and in uppercase.
Forms == {"colon_lower", "colon_upper", "dash_lower", "dash_upper",
          "dot_lower", "dot_upper", "dot_octet_lower", "bare_lower", "bare_upper"}

Spell(addr, form) ==
    CASE form = "colon_lower" -> Grouped(addr, 2, ":")
      [] form = "colon_upper" -> str_upper(Grouped(addr, 2, ":"))
      [] form = "dash_lower"  -> Grouped(addr, 2, "-")
      [] form = "dash_upper"  -> str_upper(Grouped(addr, 2, "-"))
      [] form = "dot_lower"   -> Grouped(addr, 4, ".")
      [] form = "dot_upper"   -> str_upper(Grouped(addr, 4, "."))
      [] form = "dot_octet_lower" -> Grouped(addr, 2, ".")
      [] form = "bare_lower"  -> addr
      [] form = "bare_upper"  -> str_upper(addr)

Spellings(addr) == {Spell(addr, f) : f \in Forms}

\* The uppercase colon-separated six-octet form.
IsCanonicalMac(s) ==
    /\ Len(s) = 17
    /\ \A k \in 1..17 : IF k % 3 = 0 THEN s[k] = ":" ELSE s[k] \in HexUpper

\* The hex digits of a spelling, in order, whatever their case.
DigitsOf(s) == SelectSeq(s, LAMBDA c : c \in HexLower \cup HexUpper)

\* Two spellings denote one address.
SameAddress(s, t) == str_upper(DigitsOf(s)) = str_upper(DigitsOf(t))

(***************************************************************************)
(* registry/models.py, sniffer/base.py: the rows and the events            *)
(***************************************************************************)

\* The gap after which a reappearing device starts a new visit.
_VISIT_GAP_SECONDS == 30 * 60

SECONDS_PER_DAY == 86400

\* A cap on visit_count, which the code lets grow without limit.
MaxVisits == 5

\* Before the first ingestion there is no event; before a check of
\* classify_device there is no row.
NoEvent ==
    [mac_address |-> None, signal_strength |-> 0, ssid |-> NoneStr,
     timestamp |-> 0, source |-> "<none>"]
NoDevice ==
    [mac_address |-> None, display_name |-> NoneStr, hostname |-> NoneStr,
     vendor |-> NoneStr, first_seen |-> 0, last_seen |-> 0,
     signal_strength |-> -100, visit_count |-> 1, classification |-> "unknown",
     is_randomized_mac |-> FALSE, ap_name |-> NoneStr, ssid |-> NoneStr]

\* The instants an event may carry: the epoch, exactly the visit gap later,
\* one second past it, and exactly three days later.
Timestamps == {0, _VISIT_GAP_SECONDS, _VISIT_GAP_SECONDS + 1, 3 * SECONDS_PER_DAY}

\* What each backend puts in an event besides the MAC and the timestamp:
\* (source, signal_strength, ssid).  opnsense and ruckus_event carry the
\* sentinel 0; a probe request may carry no SSID or an empty one.
EventShapes ==
    {<<"opnsense", 0, NoneStr>>,
     <<"ruckus_event", 0, "TestNet">>,
     <<"ruckus", -45, "TestNet">>,
     <<"ruckus", -45, "">>,
     <<"monitor", -80, NoneStr>>}

BeaconEvent(mac, shape, ts) ==
    [mac_address |-> mac, signal_strength |-> shape[2], ssid |-> shape[3],
     timestamp |-> ts, source |-> shape[1]]

\* The events of the ingestion checks: every shape at every instant for the
\* burned-in address as the backends spell it (mac.upper()), the same address
\* in lowercase with dashes, and one sighting of the locally administered
\* address.
IngestEvents ==
    {BeaconEvent(Spell(AddrBurned, "colon_upper"), sh, ts) :
        sh \in EventShapes, ts \in Timestamps}
    \cup {BeaconEvent(Spell(AddrBurned, "dash_lower"), <<"mock", -45, "TestNet">>, ts) :
        ts \in Timestamps}
    \cup {BeaconEvent(Spell(AddrRandom, "colon_upper"), <<"monitor", -80, NoneStr>>, 0)}

(***************************************************************************)
(* registry/store.py: upsert, classification                               *)
(***************************************************************************)

\* The OUI database of mac_vendor_lookup, cut down to the one prefix the
\* addresses above can hit; an unknown prefix raises VendorNotFoundError.
lookup_vendor(mac) ==
    IF SubSeq(normalize_mac(mac), 1, 8) = <<"0","8",":","0","0",":","2","7">>
    THEN "PCS Systemtechnik GmbH"
    ELSE NoneStr

\* NewDevice that keeps the column default (-100) when the event carries the
\* sentinel 0, as the update branch does.
NewDevice_skip_sentinel(mac, event) ==
    [mac_address |-> mac,
     display_name |-> NoneStr,
     hostname |-> NoneStr,
     vendor |-> lookup_vendor(mac),
     first_seen |-> event.timestamp,
     last_seen |-> event.timestamp,
     signal_strength |-> IF event.signal_strength # 0
                         THEN event.signal_strength ELSE -100,
     visit_count |-> 1,
     classification |-> "unknown",
     is_randomized_mac |-> is_locally_administered(mac),
     ap_name |-> NoneStr,
     ssid |-> event.ssid]

\* Device(...) as upsert_device constructs it; the other columns take the
\* defaults of the model class.
NewDevice(mac, event) ==
    [mac_address |-> mac,
     display_name |-> NoneStr,
     hostname |-> NoneStr,
     vendor |-> lookup_vendor(mac),
     first_seen |-> event.timestamp,
     last_seen |-> event.timestamp,
     signal_strength |-> event.signal_strength,
     visit_count |-> 1,
     classification |-> "unknown",
     is_randomized_mac |-> is_locally_administered(mac),
     ap_name |-> NoneStr,
     ssid |-> event.ssid]

\* UpdatedDevice that counts a visit at a gap of exactly the threshold too.
UpdatedDevice_gap_inclusive(device, event) ==
    LET gap == event.timestamp - device.last_seen
    IN  [device EXCEPT
            !.visit_count = IF gap >= _VISIT_GAP_SECONDS THEN @ + 1 ELSE @,
            !.last_seen = event.timestamp,
            !.signal_strength = IF event.signal_strength # 0
                                THEN event.signal_strength ELSE @,
            !.ssid = IF Truthy(event.ssid) THEN event.ssid ELSE @]

\* UpdatedDevice that copies signal and SSID whatever they are.
UpdatedDevice_stomp(device, event) ==
    LET gap == event.timestamp - device.last_seen
    IN  [device EXCEPT
            !.visit_count = IF gap > _VISIT_GAP_SECONDS THEN @ + 1 ELSE @,
            !.last_seen = event.timestamp,
            !.signal_strength = event.signal_strength,
            !.ssid = event.ssid]

\* UpdatedDevice that never moves last_seen backward.
UpdatedDevice_monotonic(device, event) ==
    LET gap == event.timestamp - device.last_seen
    IN  [device EXCEPT
            !.visit_count = IF gap > _VISIT_GAP_SECONDS THEN @ + 1 ELSE @,
            !.last_seen = IF event.timestamp > @ THEN event.timestamp ELSE @,
            !.signal_strength = IF event.signal_strength # 0
                                THEN event.signal_strength ELSE @,
            !.ssid = IF Truthy(event.ssid) THEN event.ssid ELSE @]

\* UpdatedDevice that widens the sighting interval to an older event.
UpdatedDevice_first_seen(device, event) ==
    LET gap == event.timestamp - device.last_seen
    IN  [device EXCEPT
            !.visit_count = IF gap > _VISIT_GAP_SECONDS THEN @ + 1 ELSE @,
            !.first_seen = IF event.timestamp < @ THEN event.timestamp ELSE @,
            !.last_seen = event.timestamp,
            !.signal_strength = IF event.signal_strength # 0
                                THEN event.signal_strength ELSE @,
            !.ssid = IF Truthy(event.ssid) THEN event.ssid ELSE @]

\* UpdatedDevice that counts a visit at a long gap backward too.
UpdatedDevice_either_way(device, event) ==
    LET gap == event.timestamp - device.last_seen
    IN  [device EXCEPT
            !.visit_count = IF gap > _VISIT_GAP_SECONDS \/ -gap > _VISIT_GAP_SECONDS
                            THEN @ + 1 ELSE @,
            !.last_seen = event.timestamp,
            !.signal_strength = IF event.signal_strength # 0
                                THEN event.signal_strength ELSE @,
            !.ssid = IF Truthy(event.ssid) THEN event.ssid ELSE @]

\* The update branch of upsert_device.
UpdatedDevice(device, event) ==
    LET gap == event.timestamp - device.last_seen
    IN  [device EXCEPT
            !.visit_count = IF gap > _VISIT_GAP_SECONDS THEN @ + 1 ELSE @,
            !.last_seen = event.timestamp,
            !.signal_strength = IF event.signal_strength # 0
                                THEN event.signal_strength ELSE @,
            !.ssid = IF Truthy(event.ssid) THEN event.ssid ELSE @]

\* upsert_device: the Device table after the commit, and the refreshed row
\* the function returns.
upsert_device(session, event) ==
    LET mac == normalize_mac(event.mac_address)
        device == IF mac \notin DOMAIN session
                  THEN NewDevice(mac, event)
                  ELSE UpdatedDevice(session[mac], event)
    IN  [session |-> IF mac \notin DOMAIN session
                     THEN session @@ (mac :> device)
                     ELSE [session EXCEPT ![mac] = device],
         device |-> device]

\* classify_device that tests the resident rule before the randomized flag.
classify_device_resident_first(device) ==
    LET age_seconds == device.last_seen - device.first_seen
    IN  IF device.visit_count >= 5 /\ age_seconds >= 3 * SECONDS_PER_DAY
        THEN "resident"
        ELSE IF device.is_randomized_mac THEN "passerby"
        ELSE IF device.visit_count >= 3 THEN "frequent"
        ELSE IF device.visit_count = 1 /\ device.signal_strength < -75
        THEN "passerby"
        ELSE "unknown"

\* classify_device that tests the weak-signal rule before the visit rules.
classify_device_signal_first(device) ==
    LET age_seconds == device.last_seen - device.first_seen
    IN  IF device.is_randomized_mac THEN "passerby"
        ELSE IF device.signal_strength < -75 THEN "passerby"
        ELSE IF device.visit_count >= 5 /\ age_seconds >= 3 * SECONDS_PER_DAY
        THEN "resident"
        ELSE IF device.visit_count >= 3 THEN "frequent"
        ELSE "unknown"

classify_device(device) ==
    LET age_seconds == device.last_seen - device.first_seen
    IN  IF device.is_randomized_mac THEN "passerby"
        \* age_days >= 3, with age_days = age_seconds / 86400
        ELSE IF device.visit_count >= 5 /\ age_seconds >= 3 * SECONDS_PER_DAY
        THEN "resident"
        ELSE IF device.visit_count >= 3 THEN "frequent"
        ELSE IF device.visit_count = 1 /\ device.signal_strength < -75
        THEN "passerby"
        ELSE "unknown"

\* reclassify_device that computes the classification and does not store it.
reclassify_device_unsaved(session, device) == session

\* reclassify_device: the Device table after the commit.
reclassify_device(session, device) ==
    [session EXCEPT ![device.mac_address].classification = classify_device(device)]

(***************************************************************************)
(* main.py: the ingestion handler                                          *)
(***************************************************************************)

\* The registry part of _handle_beacon_event: the table after upsert_device
\* and reclassify_device.
Ingested(session, event) ==
    LET upserted == upsert_device(session, event)
    IN  reclassify_device(upserted.session, upserted.device)

\* _handle_beacon_event(event) as the Device table sees it (main.py:83-86).
\* The presence and alert part of the handler, which follows below as
\* DetectAndAlert, reads the Device table and writes none of it.
HandleBeaconEvent(event) ==
    LET after == Ingested(devices, event)
    IN  /\ \A mac \in DOMAIN after : after[mac].visit_count <= MaxVisits
        /\ devices' = after
        /\ lastEvent' = event

(***************************************************************************)
(* The ingestion specification                                             *)
(***************************************************************************)

InitRegistry ==
    /\ devices = <<>>
    /\ lastEvent = NoEvent

InitStore ==
    /\ links = {}
    /\ rules = <<>>

InitNormalizeIdle ==
    /\ nmAddr = AddrTest
    /\ nmIn = None
    /\ nmOut = None
    /\ nmTwice = None
    /\ nmPrev = None

InitClassifyIdle ==
    /\ clDev = NoDevice
    /\ clOut = ""

InitAdministeredIdle ==
    /\ laOctet = 0
    /\ laIn = None
    /\ laCalled = FALSE
    /\ laOut = FALSE

\* Process start: the clock at the epoch of the model, nothing present, an
\* empty PresenceLog table.
InitPresence ==
    /\ now = 0
    /\ _previously_present = {}
    /\ presence_log = <<>>
    /\ changes = <<>>
    /\ posted = <<>>

\* The threads that run _handle_beacon_event: the event loop, on which the
\* polling backends call it, and the capture thread of the monitor backend.
Threads == {"event_loop", "capture"}

\* The locals of an invocation that has not started.
NoLocals == [event |-> NoEvent, device |-> NoDevice, session |-> <<>>, previous |-> {}]

InitThreads ==
    /\ pc = [t \in Threads |-> "idle"]
    /\ local = [t \in Threads |-> NoLocals]

InitWebhooks ==
    /\ session_open = FALSE
    /\ inbox = <<>>
    /\ outstanding = <<>>

\* A backend object after __init__.
InitSniffer ==
    /\ _running = FALSE
    /\ _task = 0
    /\ tasks = {}
    /\ cancel_requested = {}
    /\ capture_threads = {}
    /\ stop_returned = FALSE
    /\ fired_after_stop = FALSE

\* No handler invocation has failed.
InitErrors ==
    /\ failed_at = "none"
    /\ propagated = FALSE
    /\ error_log = {}

\* No Person row, and no call made yet.
NoCall == [op |-> "none"]
InitApi ==
    /\ persons = {}
    /\ evCall = NoCall
    /\ dpCall = NoCall
    /\ asCall = NoCall

\* A RuckusSniffer that has seen no client event.
InitRuckus ==
    /\ _processed_event_ids = <<>>
    /\ poll_log = <<>>
    /\ sightings = <<>>
    /\ requests = [person_id \in {1, 2} |-> [pc |-> "idle"]]

InitMoreIdle ==
    /\ InitAdministeredIdle
    /\ InitPresence
    /\ InitThreads
    /\ InitWebhooks
    /\ backend = "mock"
    /\ InitSniffer
    /\ InitErrors
    /\ InitApi
    /\ InitRuckus

Init ==
    /\ InitRegistry
    /\ InitStore
    /\ InitNormalizeIdle
    /\ InitClassifyIdle
    /\ InitMoreIdle

Ingest ==
    /\ \E event \in IngestEvents : HandleBeaconEvent(event)
    /\ UNCHANGED <<storeVars, nmVars, clVars, moreVars>>

Next == Ingest

Spec == Init /\ [][Next]_vars

(***************************************************************************)
(* Properties of the ingestion                                             *)
(***************************************************************************)

\* This step is the handler's ingestion of the event lastEvent' records.
IngestStep == lastEvent' # NoEvent /\ HandleBeaconEvent(lastEvent')

\* The keys of a table that denote the address a MAC argument spells.
RowsFor(session, mac) == {m \in DOMAIN session : SameAddress(m, mac)}

\* Bit 0x02 of the first octet, read off the second hex digit of a spelling.
SecondDigitHasBit2(mac) ==
    DigitsOf(mac)[2] \in {"2","3","6","7","a","b","e","f","A","B","E","F"}

ExactGapCountsVisit ==
    [][IngestStep =>
        \A mac \in DOMAIN devices :
            (/\ SameAddress(mac, lastEvent'.mac_address)
             /\ lastEvent'.timestamp - devices[mac].last_seen = 1800)
            => devices'[mac].visit_count = devices[mac].visit_count + 1]_vars

\* C5: an event with signal_strength 0 leaves the stored signal_strength of
\* an existing device as it was, and an event with no or an empty SSID
\* leaves its stored ssid as it was.
NoRfDataKeepsRfFields ==
    [][IngestStep =>
        \A mac \in DOMAIN devices :
            /\ lastEvent'.signal_strength = 0
                => devices'[mac].signal_strength = devices[mac].signal_strength
            /\ lastEvent'.ssid \in {NoneStr, ""}
                => devices'[mac].ssid = devices[mac].ssid]_vars

\* A DHCP lease event has just been ingested for a device that holds a
\* reading and an SSID from a wireless backend.
DhcpEventAfterWirelessReading ==
    /\ lastEvent.source = "opnsense"
    /\ \E mac \in RowsFor(devices, lastEvent.mac_address) :
        /\ devices[mac].signal_strength = -45
        /\ devices[mac].ssid = "TestNet"

\* C6: upsert_device for a MAC with no row creates exactly one row, keyed by
\* the canonical MAC, with first_seen = last_seen = the event's timestamp,
\* visit_count 1, the event's signal (0 included), the randomized flag of
\* the MAC and the event's SSID.
CreatesOneFreshDevice ==
    [][(IngestStep /\ RowsFor(devices, lastEvent'.mac_address) = {}) =>
        /\ Cardinality(DOMAIN devices' \ DOMAIN devices) = 1
        /\ \A mac \in DOMAIN devices' \ DOMAIN devices :
            /\ IsCanonicalMac(mac)
            /\ SameAddress(mac, lastEvent'.mac_address)
            /\ devices'[mac].mac_address = mac
            /\ devices'[mac].first_seen = lastEvent'.timestamp
            /\ devices'[mac].last_seen = lastEvent'.timestamp
            /\ devices'[mac].visit_count = 1
            /\ devices'[mac].signal_strength = lastEvent'.signal_strength
            /\ devices'[mac].is_randomized_mac = SecondDigitHasBit2(mac)
            /\ devices'[mac].ssid = lastEvent'.ssid]_vars

\* Both addresses have a row, one of them created from an event that carried
\* the sentinel signal 0.
CreatedFromSentinelEvent ==
    /\ Cardinality(DOMAIN devices) = 2
    /\ lastEvent.signal_strength = 0
    /\ \E mac \in RowsFor(devices, lastEvent.mac_address) :
        /\ devices[mac].signal_strength = 0
        /\ devices[mac].visit_count = 1
        /\ devices[mac].first_seen = devices[mac].last_seen

\* C7: upsert_device sets last_seen to the event's timestamp even when that
\* is older than the stored last_seen, and an older event counts no visit.
LastSeenIsLastIngested ==
    [][IngestStep =>
        \A mac \in RowsFor(devices, lastEvent'.mac_address) :
            /\ devices'[mac].last_seen = lastEvent'.timestamp
            /\ lastEvent'.timestamp < devices[mac].last_seen
                => devices'[mac].visit_count = devices[mac].visit_count]_vars

\* A device whose last_seen was moved before its first_seen.
LastSeenMovedBackward ==
    \E mac \in DOMAIN devices :
        /\ devices[mac].last_seen < devices[mac].first_seen
        /\ devices[mac].last_seen = lastEvent.timestamp

\* C8: once a Device is created, no ingestion (upsert_device, then
\* reclassify_device) changes its is_randomized_mac, first_seen, vendor,
\* display_name or hostname, nor its key or ap_name: only last_seen,
\* signal_strength, ssid, visit_count and classification may change.
CreationFieldsAreFrozen ==
    [][IngestStep =>
        \A mac \in DOMAIN devices :
            /\ mac \in DOMAIN devices'
            /\ devices'[mac].is_randomized_mac = devices[mac].is_randomized_mac
            /\ devices'[mac].first_seen = devices[mac].first_seen
            /\ devices'[mac].vendor = devices[mac].vendor
            /\ devices'[mac].display_name = devices[mac].display_name
            /\ devices'[mac].hostname = devices[mac].hostname
            /\ devices'[mac].mac_address = devices[mac].mac_address
            /\ devices'[mac].ap_name = devices[mac].ap_name]_vars

\* A device with a vendor that has been updated by an event older than its
\* creation and reclassified since.
UpdatedAndReclassified ==
    \E mac \in DOMAIN devices :
        /\ devices[mac].vendor # NoneStr
        /\ devices[mac].visit_count >= 3
        /\ devices[mac].classification = "frequent"
        /\ devices[mac].last_seen < devices[mac].first_seen

\* C10: after every completed ingestion the stored classification of each
\* device is what classify_device gives for its stored fields.
ClassificationIsFresh ==
    \A mac \in DOMAIN devices :
        devices[mac].classification = classify_device(devices[mac])

\* A device the last ingestion turned into a resident.
IngestedResident ==
    \E mac \in RowsFor(devices, lastEvent.mac_address) :
        /\ devices[mac].classification = "resident"
        /\ devices[mac].visit_count = 5

(***************************************************************************)
(* normalize_mac as a function: every spelling of an address, the result,  *)
(* the result for that result, and the result for the spelling before      *)
(***************************************************************************)

InitNormalize ==
    /\ InitRegistry
    /\ InitStore
    /\ InitClassifyIdle
    /\ InitMoreIdle
    /\ nmAddr \in Addresses
    /\ nmIn \in Spellings(nmAddr)
    /\ nmOut = None
    /\ nmTwice = None
    /\ nmPrev = None

\* nmOut = normalize_mac(nmIn)
NormalizeCall ==
    /\ nmOut = None
    /\ nmOut' = normalize_mac(nmIn)
    /\ UNCHANGED <<nmAddr, nmIn, nmTwice, nmPrev, regVars, storeVars, clVars, moreVars>>

\* nmTwice = normalize_mac(normalize_mac(nmIn))
NormalizeAgain ==
    /\ nmOut # None
    /\ nmTwice = None
    /\ nmTwice' = normalize_mac(nmOut)
    /\ UNCHANGED <<nmAddr, nmIn, nmOut, nmPrev, regVars, storeVars, clVars, moreVars>>

\* The same address in another spelling.
NormalizeOtherSpelling ==
    /\ nmOut # None
    /\ \E mac \in Spellings(nmAddr) :
        /\ nmIn' = mac
        /\ nmOut' = normalize_mac(mac)
    /\ nmPrev' = nmOut
    /\ nmTwice' = None
    /\ UNCHANGED <<nmAddr, regVars, storeVars, clVars, moreVars>>

NextNormalize == NormalizeCall \/ NormalizeAgain \/ NormalizeOtherSpelling

SpecNormalize == InitNormalize /\ [][NextNormalize]_vars

\* C2: for every valid spelling of an address normalize_mac returns the same
\* string, the uppercase colon-separated form of that address, and
\* normalize_mac of that result is the result.
NormalizeIsCanonicalAndIdempotent ==
    /\ nmOut # None => IsCanonicalMac(nmOut) /\ SameAddress(nmOut, nmAddr)
    /\ (nmOut # None /\ nmPrev # None) => nmOut = nmPrev
    /\ nmTwice # None => nmTwice = nmOut

\* aa:bb:cc:dd:ee:ff given in dotted form after another spelling, and the
\* result normalized again.
NormalizedDottedTwice ==
    /\ nmIn = Spell(AddrTest, "dot_lower")
    /\ nmPrev # None
    /\ nmOut # None
    /\ nmTwice # None

(***************************************************************************)
(* classify_device as a function of a row                                  *)
(***************************************************************************)

\* The rows given to classify_device: each side of every threshold of the
\* heuristic (visit counts 3 and 5, an age of 3 days, a signal of -75 dBm).
ClassifyInputs ==
    {[NoDevice EXCEPT !.mac_address = Spell(AddrBurned, "colon_upper"),
                      !.is_randomized_mac = r, !.visit_count = v,
                      !.last_seen = age, !.signal_strength = sig] :
        r \in BOOLEAN, v \in {1, 2, 3, 4, 5, 10},
        age \in {0, 3 * SECONDS_PER_DAY - 1, 3 * SECONDS_PER_DAY, 5 * SECONDS_PER_DAY},
        sig \in {-80, -76, -75, -40, 0}}

InitClassify ==
    /\ InitRegistry
    /\ InitStore
    /\ InitNormalizeIdle
    /\ InitMoreIdle
    /\ clDev \in ClassifyInputs
    /\ clOut = ""

\* clOut = classify_device(clDev)
ClassifyCall ==
    /\ clOut = ""
    /\ clOut' = classify_device(clDev)
    /\ UNCHANGED <<clDev, regVars, storeVars, nmVars, moreVars>>

NextClassify == ClassifyCall

SpecClassify == InitClassify /\ [][NextClassify]_vars

\* C9: classify_device gives the first match of: randomized MAC -> passerby;
\* visit_count >= 5 and last_seen - first_seen >= 3 days -> resident;
\* visit_count >= 3 -> frequent; visit_count = 1 and signal_strength < -75
\* -> passerby; otherwise unknown.
ClassifyFollowsPriority ==
    LET rand == clDev.is_randomized_mac
        old == clDev.visit_count >= 5 /\ clDev.last_seen - clDev.first_seen >= 259200
        often == clDev.visit_count >= 3
        weak == clDev.visit_count = 1 /\ clDev.signal_strength < -75
    IN  clOut # "" =>
            /\ rand => clOut = "passerby"
            /\ (~rand /\ old) => clOut = "resident"
            /\ (~rand /\ ~old /\ often) => clOut = "frequent"
            /\ (~rand /\ ~old /\ ~often /\ weak) => clOut = "passerby"
            /\ (~rand /\ ~old /\ ~often /\ ~weak) => clOut = "unknown"

\* A randomized MAC with ten visits over five days, classified.
ClassifiedRandomizedRegular ==
    /\ clOut = "passerby"
    /\ clDev.is_randomized_mac
    /\ clDev.visit_count = 10
    /\ clDev.last_seen - clDev.first_seen = 432000

(***************************************************************************)
(* persona/engine.py: device assignment                                    *)
(***************************************************************************)

\* session.exec(select(PersonDevice).where(mac_address == mac)).first(): a
\* row with that MAC, whichever the engine returns first, or no row.
NoLink == [person_id |-> NoneId, mac_address |-> None]
first_link(person_devices, mac) ==
    IF \E l \in person_devices : l.mac_address = mac
    THEN {l \in person_devices : l.mac_address = mac}
    ELSE {NoLink}

\* assign_device with existing_link the row that query returned: the
\* PersonDevice table afterwards and how the call ended.
assign_device_any_owner(session, person_devices, person_id, mac_address, existing_link) ==
    LET mac == normalize_mac(mac_address)
    IN  IF mac \notin DOMAIN session
        THEN [links |-> person_devices, result |-> "ValueError: does not exist"]
        ELSE IF [person_id |-> person_id, mac_address |-> mac] \in person_devices
        THEN [links |-> person_devices, result |-> "existing link"]
        ELSE [links |-> person_devices \cup {[person_id |-> person_id, mac_address |-> mac]},
              result |-> "new link"]
assign_device_any_device(session, person_devices, person_id, mac_address, existing_link) ==
    LET mac == normalize_mac(mac_address)
    IN  IF existing_link # NoLink /\ existing_link.person_id # person_id
        THEN [links |-> person_devices, result |-> "ValueError: already assigned"]
        ELSE IF [person_id |-> person_id, mac_address |-> mac] \in person_devices
        THEN [links |-> person_devices, result |-> "existing link"]
        ELSE [links |-> person_devices \cup {[person_id |-> person_id, mac_address |-> mac]},
              result |-> "new link"]
assign_device_once_only(session, person_devices, person_id, mac_address, existing_link) ==
    LET mac == normalize_mac(mac_address)
    IN  IF mac \notin DOMAIN session
        THEN [links |-> person_devices, result |-> "ValueError: does not exist"]
        ELSE IF existing_link # NoLink
        THEN [links |-> person_devices, result |-> "ValueError: already assigned"]
        ELSE [links |-> person_devices \cup {[person_id |-> person_id, mac_address |-> mac]},
              result |-> "new link"]
assign_device(session, person_devices, person_id, mac_address, existing_link) ==
    LET mac == normalize_mac(mac_address)
    IN  IF mac \notin DOMAIN session
        THEN [links |-> person_devices, result |-> "ValueError: does not exist"]
        ELSE IF existing_link # NoLink /\ existing_link.person_id # person_id
        THEN [links |-> person_devices, result |-> "ValueError: already assigned"]
        ELSE IF [person_id |-> person_id, mac_address |-> mac] \in person_devices
        THEN [links |-> person_devices, result |-> "existing link"]
        ELSE [links |-> person_devices \cup {[person_id |-> person_id, mac_address |-> mac]},
              result |-> "new link"]

\* create_person: the Person table after the commit.  The engine gives the
\* new row the id after the largest in use.
create_person(person_table) ==
    person_table \cup
        {IF person_table = {} THEN 1
         ELSE 1 + CHOOSE i \in person_table : \A j \in person_table : j <= i}

\* delete_person: the Person and PersonDevice tables afterwards and what the
\* call returned.
delete_person(person_table, person_devices, person_id) ==
    IF person_id \notin person_table
    THEN [persons |-> person_table, links |-> person_devices, result |-> FALSE]
    ELSE [persons |-> person_table \ {person_id},
          links |-> {l \in person_devices : l.person_id # person_id},
          result |-> TRUE]

\* unassign_device: the PersonDevice table afterwards and what the call
\* returned.
unassign_device(person_devices, person_id, mac_address) ==
    LET link == [person_id |-> person_id, mac_address |-> normalize_mac(mac_address)]
    IN  IF link \notin person_devices
        THEN [links |-> person_devices, result |-> FALSE]
        ELSE [links |-> person_devices \ {link}, result |-> TRUE]

(***************************************************************************)
(* alerts/manager.py: rule creation and update                             *)
(***************************************************************************)

\* A cap on the number of AlertRule rows.
MaxRules == 2

\* The id the engine gives a new row: one more than the largest in use.
next_id(table) ==
    IF DOMAIN table = {} THEN 1
    ELSE 1 + CHOOSE i \in DOMAIN table : \A j \in DOMAIN table : j <= i

\* create_rule that stores the MAC as it was given.
create_rule_raw_mac(alert_rules, name, webhook_url, trigger_type, person_id, mac_address) ==
    LET id == next_id(alert_rules)
    IN  alert_rules @@
        (id :> [id |-> id, name |-> name, webhook_url |-> webhook_url,
                trigger_type |-> trigger_type, person_id |-> person_id,
                mac_address |-> IF mac_address # None /\ Len(mac_address) > 0
                                THEN mac_address ELSE None,
                enabled |-> TRUE])

\* create_rule: the AlertRule table after the commit.
create_rule(alert_rules, name, webhook_url, trigger_type, person_id, mac_address) ==
    LET id == next_id(alert_rules)
    IN  alert_rules @@
        (id :> [id |-> id, name |-> name, webhook_url |-> webhook_url,
                trigger_type |-> trigger_type, person_id |-> person_id,
                mac_address |-> IF mac_address # None /\ Len(mac_address) > 0
                                THEN normalize_mac(mac_address) ELSE None,
                enabled |-> TRUE])

\* delete_rule: the AlertRule table after the commit; unchanged when there
\* is no such rule.
delete_rule(alert_rules, rule_id) ==
    [id \in DOMAIN alert_rules \ {rule_id} |-> alert_rules[id]]

\* update_rule(rule_id, **kwargs): kwargs is a record of the keywords given.
\* The AlertRule table after the commit; unchanged when there is no such rule.
update_rule(alert_rules, rule_id, kwargs) ==
    IF rule_id \notin DOMAIN alert_rules THEN alert_rules
    ELSE LET value(key) ==
                 IF key = "mac_address" /\ kwargs[key] # None
                 THEN normalize_mac(kwargs[key])
                 ELSE kwargs[key]
         IN  [alert_rules EXCEPT ![rule_id] =
                 [key \in DOMAIN @ |->
                     IF key \in DOMAIN kwargs THEN value(key) ELSE @[key]]]

(***************************************************************************)
(* The store specification: ingestion, assignment and rule calls with the  *)
(* MAC argument in every kind of spelling                                  *)
(***************************************************************************)

\* The spellings the callers of the store give: aa:bb:cc:dd:ee:ff in one
\* spelling of each kind, and 08:00:27:aa:bb:cc in lowercase with dashes.
StoreForms == {"colon_upper", "colon_lower", "dash_upper", "dot_lower", "bare_upper"}
StoreMacs ==
    {Spell(AddrTest, f) : f \in StoreForms} \cup {Spell(AddrBurned, "dash_lower")}

\* A sighting at the epoch by the wireless controller.
StoreEvents == {BeaconEvent(mac, <<"ruckus", -45, "TestNet">>, 0) : mac \in StoreMacs}

\* The persons an operator assigns devices to.
PersonIds == {1, 2}

StoreIngest ==
    /\ \E event \in StoreEvents : HandleBeaconEvent(event)
    /\ UNCHANGED <<links, rules, nmVars, clVars, moreVars>>

AssignDevice ==
    /\ \E person_id \in PersonIds, mac \in StoreMacs :
        \E existing_link \in first_link(links, normalize_mac(mac)) :
            links' = assign_device(devices, links, person_id, mac, existing_link).links
    /\ UNCHANGED <<regVars, rules, nmVars, clVars, moreVars>>

CreateRule ==
    /\ Cardinality(DOMAIN rules) < MaxRules
    /\ \E mac \in StoreMacs \cup {None} :
        rules' = create_rule(rules, "rule", "http://hook", "both", NoneId, mac)
    /\ UNCHANGED <<regVars, links, nmVars, clVars, moreVars>>

UpdateRule ==
    /\ \E rule_id \in 1..MaxRules, mac \in StoreMacs \cup {None} :
        rules' = update_rule(rules, rule_id, [mac_address |-> mac])
    /\ UNCHANGED <<regVars, links, nmVars, clVars, moreVars>>

NextStore == StoreIngest \/ AssignDevice \/ CreateRule \/ UpdateRule

SpecStore == Init /\ [][NextStore]_vars

\* C1: after any sequence of upsert_device, assign_device, create_rule and
\* update_rule calls with the MAC in any supported spelling, every MAC stored
\* in a Device, PersonDevice or AlertRule row is in the uppercase
\* colon-separated form: no address has two Device rows and every link
\* joins a Device row.
StoredMacsAreCanonical ==
    /\ \A mac \in DOMAIN devices :
        /\ IsCanonicalMac(mac)
        /\ devices[mac].mac_address = mac
        /\ \A other \in DOMAIN devices : SameAddress(mac, other) => mac = other
    /\ \A l \in links :
        /\ IsCanonicalMac(l.mac_address)
        /\ l.mac_address \in DOMAIN devices
    /\ \A id \in DOMAIN rules :
        rules[id].mac_address # None => IsCanonicalMac(rules[id].mac_address)

\* Both addresses have a Device row, aa:bb:cc:dd:ee:ff was last sighted in
\* dotted lowercase, and it has a link and a rule.
StoredFromDottedSpelling ==
    /\ Cardinality(DOMAIN devices) = 2
    /\ lastEvent.mac_address = Spell(AddrTest, "dot_lower")
    /\ \E l \in links : SameAddress(l.mac_address, AddrTest)
    /\ \E id \in DOMAIN rules :
        rules[id].mac_address # None /\ SameAddress(rules[id].mac_address, AddrTest)

(***************************************************************************)
(* The scenario of five sightings over three days                          *)
(***************************************************************************)

\* Five instants 18 hours apart: each more than 30 minutes after the one
\* before, the last exactly three days after the first.
ScenarioGap == 18 * 3600
ScenarioTimes == {k * ScenarioGap : k \in 0..4}

\* The sightings of the scenario: aa-bb-cc-dd-ee-ff at -42 dBm at each of the
\* instants, and beside it the burned-in address 08-00-27-aa-bb-cc sighted
\* the same way at every other one.
ScenarioEvents ==
    {BeaconEvent(Spell(AddrTest, "dash_lower"), <<"mock", -42, "HomeNetwork">>, ts) :
        ts \in ScenarioTimes}
    \cup {BeaconEvent(Spell(AddrBurned, "dash_lower"), <<"mock", -42, "HomeNetwork">>, ts) :
        ts \in {0, 2 * ScenarioGap, 4 * ScenarioGap}}

ScenarioIngest ==
    /\ \E event \in ScenarioEvents : HandleBeaconEvent(event)
    /\ UNCHANGED <<storeVars, nmVars, clVars, moreVars>>

NextScenario == ScenarioIngest

SpecScenario == Init /\ [][NextScenario]_vars

\* The row of the address a spelling denotes was created by one sighting.
SightedOnce(d) == d.visit_count = 1 /\ d.first_seen = d.last_seen

\* The row has five visits and its sightings span three days or more.
SightedFiveTimesOverThreeDays(d) ==
    d.visit_count = 5 /\ d.last_seen - d.first_seen >= 3 * SECONDS_PER_DAY

\* C11 as stated: the device of aa-bb-cc-dd-ee-ff is unknown after its first
\* sighting and resident once it has five visits over three days or more.
ScenarioEndsResident ==
    \A mac \in RowsFor(devices, AddrTest) :
        /\ SightedOnce(devices[mac]) => devices[mac].classification = "unknown"
        /\ SightedFiveTimesOverThreeDays(devices[mac]) =>
               devices[mac].classification = "resident"

\* C11, amended: aa-bb-cc-dd-ee-ff has bit 0x02 of its first octet set, so
\* its device is created randomized, with visit_count 1 and classification
\* passerby, and stays passerby when four more sightings more than 30
\* minutes apart over three days bring visit_count to 5; the burned-in
\* address sighted the same way is unknown at first and resident at the end.
ScenarioFollowsRandomizedRule ==
    /\ \A mac \in RowsFor(devices, AddrTest) :
        /\ mac = Spell(AddrTest, "colon_upper")
        /\ devices[mac].is_randomized_mac
        /\ devices[mac].classification = "passerby"
    /\ \A mac \in RowsFor(devices, AddrBurned) :
        /\ ~devices[mac].is_randomized_mac
        /\ SightedOnce(devices[mac]) => devices[mac].classification = "unknown"
        /\ SightedFiveTimesOverThreeDays(devices[mac]) =>
               devices[mac].classification = "resident"

\* aa-bb-cc-dd-ee-ff after five sightings, each 18 hours after the one
\* before.
ScenarioCompleted ==
    /\ lastEvent.mac_address = Spell(AddrTest, "dash_lower")
    /\ lastEvent.timestamp = 4 * ScenarioGap
    /\ \E mac \in RowsFor(devices, AddrTest) :
        /\ SightedFiveTimesOverThreeDays(devices[mac])
        /\ devices[mac].first_seen = 0

(***************************************************************************)
(* is_locally_administered as a function of the first octet                *)
(***************************************************************************)

\* The lowercase hex digit of a value 0..15.
HexDigits == <<"0","1","2","3","4","5","6","7","8","9","a","b","c","d","e","f">>

\* The address whose first octet is the given value and whose other five
\* octets are those of 08:00:27:aa:bb:cc.
WithFirstOctet(octet) ==
    <<HexDigits[(octet \div 16) + 1], HexDigits[(octet % 16) + 1]>>
        \o SubSeq(AddrBurned, 3, 12)

InitAdministered ==
    /\ InitRegistry
    /\ InitStore
    /\ InitNormalizeIdle
    /\ InitClassifyIdle
    /\ InitPresence
    /\ InitThreads
    /\ InitWebhooks
    /\ backend = "mock"
    /\ InitSniffer
    /\ InitErrors
    /\ InitApi
    /\ InitRuckus
    /\ laOctet \in 0..255
    /\ laIn \in Spellings(WithFirstOctet(laOctet))
    /\ laCalled = FALSE
    /\ laOut = FALSE

\* laOut = is_locally_administered(laIn)
AdministeredCall ==
    /\ ~laCalled
    /\ laCalled' = TRUE
    /\ laOut' = is_locally_administered(laIn)
    /\ UNCHANGED <<laOctet, laIn, regVars, storeVars, nmVars, clVars, presVars, thrVars, whVars, snVars, errVars, apiVars, rkVars, sgVars, rqVars>>

NextAdministered == AdministeredCall

SpecAdministered == InitAdministered /\ [][NextAdministered]_vars

\* C12: is_locally_administered(mac) is true exactly when bit 0x02 of the
\* first octet of the address is set, for each first octet 0..255 and each
\* accepted spelling of the address.
AdministeredIffBit1 ==
    laCalled => (laOut <=> ((laOctet \div 2) % 2 = 1))

\* The call was made for a lowercase dotted spelling of an address whose
\* first octet is 0xAA, and returned true.
AdministeredDottedAA ==
    /\ laCalled
    /\ laOut
    /\ laOctet = 170
    /\ laIn = Spell(WithFirstOctet(170), "dot_lower")

(***************************************************************************)
(* registry/store.py: presence queries and the presence-change detector    *)
(***************************************************************************)

\* Settings.presence_grace_period, in seconds.
presence_grace_period == 180

\* get_present_devices that leaves out a device seen exactly grace_seconds
\* ago.
get_present_devices_strict(session, at, grace_seconds) ==
    {mac \in DOMAIN session : session[mac].last_seen > at - grace_seconds}

\* get_present_devices that goes by the first sighting.
get_present_devices_first_seen(session, at, grace_seconds) ==
    {mac \in DOMAIN session : session[mac].first_seen >= at - grace_seconds}

\* get_present_devices at the instant `at`: the MACs of the rows whose
\* last_seen is not before the cutoff.
get_present_devices(session, at, grace_seconds) ==
    {mac \in DOMAIN session : session[mac].last_seen >= at - grace_seconds}

\* The lists that hold each element of a finite set once.
Orderings(S) ==
    {order \in [1..Cardinality(S) -> S] :
        \A i, j \in 1..Cardinality(S) : order[i] = order[j] => i = j}

\* log_presence_change for each change of a list, in order, at one instant.
log_presence_changes_first_only(log, found, at) ==
    log \o [k \in 1..(IF Len(found) > 0 THEN 1 ELSE 0) |->
               [mac_address |-> found[k][1], event_type |-> found[k][2],
                timestamp |-> at]]
log_presence_changes(log, found, at) ==
    log \o [k \in 1..Len(found) |->
               [mac_address |-> found[k][1], event_type |-> found[k][2],
                timestamp |-> at]]

\* detect_presence_changes that keeps the set of the first pass.
detect_presence_changes_stale_set(session, log, previous, at, grace_seconds) ==
    LET current == get_present_devices(session, at, grace_seconds)
        found == {<<mac, "arrive">> : mac \in current \ previous}
                     \cup {<<mac, "depart">> : mac \in previous \ current}
    IN  {[changes |-> order,
          log |-> log_presence_changes(log, order, at),
          previous |-> IF previous = {} THEN current ELSE previous] :
            order \in Orderings(found)}

\* detect_presence_changes that logs arrivals only.
detect_presence_changes_log_arrivals(session, log, previous, at, grace_seconds) ==
    LET current == get_present_devices(session, at, grace_seconds)
        found == {<<mac, "arrive">> : mac \in current \ previous}
                     \cup {<<mac, "depart">> : mac \in previous \ current}
    IN  {[changes |-> order,
          log |-> log_presence_changes(
                      log, SelectSeq(order, LAMBDA c : c[2] = "arrive"), at),
          previous |-> current] :
            order \in Orderings(found)}

\* detect_presence_changes at the instant `at`, with `previous` the value of
\* _previously_present: what the call may return (the list of changes in any
\* order), the PresenceLog table and _previously_present after it.
detect_presence_changes(session, log, previous, at, grace_seconds) ==
    LET current == get_present_devices(session, at, grace_seconds)
        found == {<<mac, "arrive">> : mac \in current \ previous}
                     \cup {<<mac, "depart">> : mac \in previous \ current}
    IN  {[changes |-> order,
          log |-> log_presence_changes(log, order, at),
          previous |-> current] :
            order \in Orderings(found)}

(***************************************************************************)
(* alerts/manager.py: rule evaluation and webhook dispatch                 *)
(***************************************************************************)

\* list_rules(enabled_only=True): the ids of the enabled rules, newest first.
RECURSIVE ids_descending(_)
ids_descending(ids) ==
    IF ids = {} THEN <<>>
    ELSE LET top == CHOOSE i \in ids : \A j \in ids : j <= i
         IN  <<top>> \o ids_descending(ids \ {top})
list_enabled_rules_all(alert_rules) ==
    ids_descending(DOMAIN alert_rules)
list_enabled_rules(alert_rules) ==
    ids_descending({id \in DOMAIN alert_rules : alert_rules[id].enabled})

\* The trigger filter of a rule (manager.py:132-135).
trigger_passes_depart_only(rule, event_type) ==
    ~(rule.trigger_type = "depart" /\ event_type # "depart")
trigger_passes(rule, event_type) ==
    /\ ~(rule.trigger_type = "arrive" /\ event_type # "arrive")
    /\ ~(rule.trigger_type = "depart" /\ event_type # "depart")

\* The person or MAC filter of a rule (manager.py:138-149).
target_matches_linked_only(rule, person_id, mac) ==
    IF rule.person_id # NoneId THEN person_id = rule.person_id
    ELSE IF rule.mac_address # None THEN mac = rule.mac_address
    ELSE person_id # NoneId
target_matches(rule, person_id, mac) ==
    IF rule.person_id # NoneId THEN person_id = rule.person_id
    ELSE IF rule.mac_address # None THEN mac = rule.mac_address
    ELSE TRUE

\* The person id evaluate_presence_change resolves for a MAC
\* (manager.py:110-128).  Without person_name it is the person_id of the
\* PersonDevice row of the MAC; with person_name it is the id of the Person
\* row joined to that PersonDevice row, None where there is no such Person.
\* assign_device keeps one PersonDevice row per MAC, which is the row
\* .first() returns.
lookup_person_id(person_table, person_devices, mac, person_name) ==
    LET person_device == CHOOSE l \in first_link(person_devices, mac) : TRUE
    IN  IF ~Truthy(person_name) THEN person_device.person_id
        ELSE IF person_device.person_id \in person_table
        THEN person_device.person_id
        ELSE NoneId

\* evaluate_presence_change: the payloads of the enabled rules that match,
\* in the order of list_rules.
evaluate_presence_change_raw_mac(person_table, alert_rules, person_devices, mac_address, event_type, device_name, person_name) ==
    LET mac == mac_address
        person_id == lookup_person_id(person_table, person_devices, mac, person_name)
        payload(rule) ==
            [event |-> event_type, mac_address |-> mac,
             name |-> IF Truthy(device_name) THEN device_name ELSE "<mac>",
             person_id |-> person_id, rule_id |-> rule.id,
             _webhook_url |-> rule.webhook_url]
        enabled == list_enabled_rules(alert_rules)
        matched == SelectSeq(enabled, LAMBDA id :
                        /\ trigger_passes(alert_rules[id], event_type)
                        /\ target_matches(alert_rules[id], person_id, mac))
    IN  [k \in 1..Len(matched) |-> payload(alert_rules[matched[k]])]
evaluate_presence_change(person_table, alert_rules, person_devices, mac_address, event_type, device_name, person_name) ==
    LET mac == normalize_mac(mac_address)
        person_id == lookup_person_id(person_table, person_devices, mac, person_name)
        payload(rule) ==
            [event |-> event_type, mac_address |-> mac,
             name |-> IF Truthy(device_name) THEN device_name ELSE "<mac>",
             person_id |-> person_id, rule_id |-> rule.id,
             _webhook_url |-> rule.webhook_url]
        enabled == list_enabled_rules(alert_rules)
        matched == SelectSeq(enabled, LAMBDA id :
                        /\ trigger_passes(alert_rules[id], event_type)
                        /\ target_matches(alert_rules[id], person_id, mac))
    IN  [k \in 1..Len(matched) |-> payload(alert_rules[matched[k]])]

\* dispatch_webhooks: the POSTs made, one per payload that carries a URL, in
\* the order of the payloads.
dispatch_webhooks(payloads) ==
    SelectSeq(payloads, LAMBDA payload : Truthy(payload._webhook_url))

(***************************************************************************)
(* main.py: the whole ingestion handler, and the presence specification    *)
(***************************************************************************)

\* A cap on the number of PresenceLog rows.
MaxLog == 3

\* The instants of the clock: process start, exactly the grace period
\* later, one second past it, and a later instant.
ClockTimes ==
    {0, presence_grace_period, presence_grace_period + 1,
     2 * presence_grace_period + 40}

\* device.display_name or device.hostname or device.vendor
device_name_of(device) ==
    IF Truthy(device.display_name) THEN device.display_name
    ELSE IF Truthy(device.hostname) THEN device.hostname
    ELSE device.vendor

\* The payloads of a list of changes, in order (main.py:92-99).
RECURSIVE all_payloads(_, _, _, _)
all_payloads(alert_rules, person_devices, found, device_name) ==
    IF found = <<>> THEN <<>>
    ELSE evaluate_presence_change(persons, alert_rules, person_devices,
                                  Head(found)[1], Head(found)[2], device_name,
                                  NoneStr)
         \o all_payloads(alert_rules, person_devices, Tail(found), device_name)

\* The presence and alert part of _handle_beacon_event, run on the table
\* the registry part left: one detection pass, the evaluation of each change
\* and the dispatch of the payloads.
DetectAndAlert(session, device) ==
    \E pass \in detect_presence_changes(session, presence_log, _previously_present,
                                        now, presence_grace_period) :
        /\ Len(pass.log) <= MaxLog
        /\ changes' = pass.changes
        /\ presence_log' = pass.log
        /\ _previously_present' = pass.previous
        /\ posted' = dispatch_webhooks(
                all_payloads(rules, links, pass.changes, device_name_of(device)))

\* _handle_beacon_event(event), whole.
_handle_beacon_event(event) ==
    /\ HandleBeaconEvent(event)
    /\ DetectAndAlert(devices', devices'[normalize_mac(event.mac_address)])

\* What the backends deliver at an instant: a sighting of either address
\* stamped with that instant, or a disassociation of 08:00:27:aa:bb:cc read
\* from the controller's event log and stamped with the epoch.
PresenceEvents(at) ==
    {BeaconEvent(Spell(addr, "colon_upper"), <<"mock", -45, "TestNet">>, at) :
        addr \in {AddrBurned, AddrRandom}}
    \cup {BeaconEvent(Spell(AddrBurned, "colon_upper"), <<"ruckus_event", 0, "TestNet">>, 0)}

\* A backend delivers an event.
PresenceIngest ==
    /\ \E event \in PresenceEvents(now) : _handle_beacon_event(event)
    /\ UNCHANGED <<now, storeVars, nmVars, clVars, laVars, thrVars, whVars, snVars, errVars, apiVars, rkVars, sgVars, rqVars>>

\* detect_presence_changes called on its own.
Detect ==
    /\ \E pass \in detect_presence_changes(devices, presence_log, _previously_present,
                                           now, presence_grace_period) :
        /\ Len(pass.log) <= MaxLog
        /\ changes' = pass.changes
        /\ presence_log' = pass.log
        /\ _previously_present' = pass.previous
    /\ UNCHANGED <<now, posted, regVars, storeVars, nmVars, clVars, laVars, thrVars, whVars, snVars, errVars, apiVars, rkVars, sgVars, rqVars>>

\* Time passes.
Tick ==
    /\ \E later \in ClockTimes : later > now /\ now' = later
    /\ UNCHANGED <<_previously_present, presence_log, changes, posted,
                   regVars, storeVars, nmVars, clVars, laVars, thrVars, whVars, snVars, errVars, apiVars, rkVars, sgVars, rqVars>>

\* An operator assigns 08:00:27:aa:bb:cc to a person.
PresenceAssign ==
    /\ \E person_id \in PersonIds :
        LET mac == Spell(AddrBurned, "dash_lower")
        IN  \E existing_link \in first_link(links, normalize_mac(mac)) :
                links' = assign_device(devices, links, person_id, mac, existing_link).links
    /\ UNCHANGED <<regVars, rules, nmVars, clVars, moreVars>>

\* An operator creates a rule for every device that fires on arrivals.
PresenceCreateRule ==
    /\ Cardinality(DOMAIN rules) < MaxRules
    /\ rules' = create_rule(rules, "rule", "http://hook", "arrive", NoneId, None)
    /\ UNCHANGED <<regVars, links, nmVars, clVars, moreVars>>

NextPresence ==
    PresenceIngest \/ Detect \/ Tick \/ PresenceAssign \/ PresenceCreateRule

SpecPresence == Init /\ [][NextPresence]_vars

\* The MACs whose row was last seen no more than the grace period before
\* the instant.
WithinGrace(session, at) ==
    {mac \in DOMAIN session : at - session[mac].last_seen <= presence_grace_period}

\* This step is a pass of detect_presence_changes, on its own or in the
\* handler: every other step moves the clock or writes a link or a rule.
PassStep == now' = now /\ links' = links /\ rules' = rules

\* How many times a change is in a list.
Occurrences(found, change) ==
    Cardinality({k \in 1..Len(found) : found[k] = change})

\* C13: a pass of detect_presence_changes returns exactly one "arrive" for
\* each MAC that is within the grace window and was not in the previously
\* present set, exactly one "depart" for each MAC of that set that is no
\* longer within the window, and nothing for any other MAC.
ChangesAreTheDifference ==
    [][PassStep =>
        LET current == WithinGrace(devices', now')
            previous == _previously_present
        IN  /\ \A mac \in current \ previous :
                /\ Occurrences(changes', <<mac, "arrive">>) = 1
                /\ Occurrences(changes', <<mac, "depart">>) = 0
            /\ \A mac \in previous \ current :
                /\ Occurrences(changes', <<mac, "depart">>) = 1
                /\ Occurrences(changes', <<mac, "arrive">>) = 0
            /\ \A k \in 1..Len(changes') :
                changes'[k][1] \in (current \ previous) \cup (previous \ current)
    ]_vars

\* One pass returned a departure and an arrival.
PassFoundDepartureAndArrival ==
    /\ Len(changes) = 2
    /\ \E k \in 1..2 : changes[k][2] = "arrive"
    /\ \E k \in 1..2 : changes[k][2] = "depart"

\* C14: each pass leaves in _previously_present the present set it
\* computed, nothing else changes that set, and so a pass that finds the
\* same MACs within the grace window as the pass before returns no change.
SecondPassFindsNothing ==
    [][IF PassStep
       THEN /\ _previously_present' = WithinGrace(devices', now')
            /\ WithinGrace(devices', now') = _previously_present =>
                   changes' = <<>> /\ presence_log' = presence_log
       ELSE _previously_present' = _previously_present
    ]_vars

\* A pass found a present device it had already reported: it returned no
\* change.
PassAfterArrivalFoundNothing ==
    /\ changes = <<>>
    /\ _previously_present # {}
    /\ presence_log # <<>>
    /\ presence_log[Len(presence_log)].event_type = "arrive"

\* C15: the PresenceLog table only grows, by one row per change a pass of
\* detect_presence_changes returns, in order and stamped with the instant of
\* the pass; upsert, reclassification, rule evaluation, dispatch, device
\* assignment and rule creation leave its rows as they are.
LogIsAppendOnly ==
    [][IF PassStep
       THEN /\ Len(presence_log') = Len(presence_log) + Len(changes')
            /\ SubSeq(presence_log', 1, Len(presence_log)) = presence_log
            /\ \A k \in 1..Len(changes') :
                presence_log'[Len(presence_log) + k] =
                    [mac_address |-> changes'[k][1], event_type |-> changes'[k][2],
                     timestamp |-> now]
       ELSE presence_log' = presence_log
    ]_vars

\* The log holds an arrival and then the departure of a device that is
\* assigned to a person, and a rule exists.
LoggedArrivalThenDeparture ==
    /\ Len(presence_log) >= 2
    /\ presence_log[1].event_type = "arrive"
    /\ presence_log[2].event_type = "depart"
    /\ presence_log[2].mac_address = presence_log[1].mac_address
    /\ \E l \in links : l.mac_address = presence_log[1].mac_address
    /\ rules # <<>>

(***************************************************************************)
(* The handler run by two threads.  sniffer/monitor.py hands its packet    *)
(* callback to scapy's AsyncSniffer, which calls it, and with it the       *)
(* handler, on its own thread, while the polling backends call the handler *)
(* on the event loop.  main.py takes no lock, database.py lets every       *)
(* thread use the engine, and each storage call is a point where the       *)
(* other thread may run.                                                   *)
(***************************************************************************)

\* What each thread's backend delivers at an instant: a sighting of
\* 08:00:27:aa:bb:cc, polled or captured.
ThreadEvents(t, at) ==
    IF t = "event_loop"
    THEN {BeaconEvent(Spell(AddrBurned, "colon_upper"), <<"mock", -45, "TestNet">>, at)}
    ELSE {BeaconEvent(Spell(AddrBurned, "colon_upper"), <<"monitor", -80, NoneStr>>, at)}

\* The row an UPDATE of the attributes that upsert_device changed on its
\* copy of the row leaves in the table.
FlushedDevice(stored, loaded, event) ==
    LET updated == UpdatedDevice(loaded, event)
    IN  [field \in DOMAIN stored |->
            IF updated[field] # loaded[field] THEN updated[field] ELSE stored[field]]

\* upsert_device up to session.get(Device, mac).
ThreadGet(t) ==
    /\ pc[t] = "idle"
    /\ \E event \in ThreadEvents(t, now) :
        LET mac == normalize_mac(event.mac_address)
        IN  local' = [local EXCEPT ![t] =
                [NoLocals EXCEPT !.event = event,
                                 !.device = IF mac \in DOMAIN devices
                                            THEN devices[mac] ELSE NoDevice]]
    /\ pc' = [pc EXCEPT ![t] = "upsert"]
    /\ UNCHANGED <<regVars, storeVars, nmVars, clVars, laVars, presVars, whVars, snVars, errVars, apiVars, rkVars, sgVars, rqVars>>

\* The rest of upsert_device, and reclassify_device.  An INSERT of a key the
\* other thread inserted meanwhile fails in the commit, and the handler
\* catches the error and returns.
ThreadCommit(t) ==
    /\ pc[t] = "upsert"
    /\ LET event == local[t].event
           mac == normalize_mac(event.mac_address)
       IN  IF local[t].device = NoDevice
           THEN IF mac \in DOMAIN devices
                THEN /\ pc' = [pc EXCEPT ![t] = "idle"]
                     /\ local' = [local EXCEPT ![t] = NoLocals]
                     /\ UNCHANGED regVars
                ELSE /\ HandleBeaconEvent(event)
                     /\ pc' = [pc EXCEPT ![t] = "detect"]
                     /\ UNCHANGED local
           ELSE LET flushed == FlushedDevice(devices[mac], local[t].device, event)
                IN  /\ flushed.visit_count <= MaxVisits
                    /\ devices' = reclassify_device(
                            [devices EXCEPT ![mac] = flushed], flushed)
                    /\ lastEvent' = event
                    /\ pc' = [pc EXCEPT ![t] = "detect"]
                    /\ UNCHANGED local
    /\ UNCHANGED <<storeVars, nmVars, clVars, laVars, presVars, whVars, snVars, errVars, apiVars, rkVars, sgVars, rqVars>>

\* detect_presence_changes up to the diff: the query of the present
\* devices and the read of _previously_present.
ThreadDetectRead(t) ==
    /\ pc[t] = "detect"
    /\ local' = [local EXCEPT ![t].session = devices,
                              ![t].previous = _previously_present]
    /\ pc' = [pc EXCEPT ![t] = "log"]
    /\ UNCHANGED <<regVars, storeVars, nmVars, clVars, laVars, presVars, whVars, snVars, errVars, apiVars, rkVars, sgVars, rqVars>>

\* The rest of detect_presence_changes, on what the thread read: the log
\* rows, the write of _previously_present; then the evaluation of the
\* changes and the dispatch.
ThreadDetectWrite(t) ==
    /\ pc[t] = "log"
    /\ \E pass \in detect_presence_changes(local[t].session, presence_log,
                                           local[t].previous, now,
                                           presence_grace_period) :
        /\ Len(pass.log) <= MaxLog
        /\ changes' = pass.changes
        /\ presence_log' = pass.log
        /\ _previously_present' = pass.previous
        /\ posted' = dispatch_webhooks(
                all_payloads(rules, links, pass.changes,
                             device_name_of(local[t].device)))
    /\ pc' = [pc EXCEPT ![t] = "idle"]
    /\ local' = [local EXCEPT ![t] = NoLocals]
    /\ UNCHANGED <<now, regVars, storeVars, nmVars, clVars, laVars, whVars, snVars, errVars, apiVars, rkVars, sgVars, rqVars>>

\* Time passes, to an instant at which a device seen at process start is
\* no longer within the grace period.
ThreadTick ==
    /\ \E later \in {presence_grace_period + 1} : later > now /\ now' = later
    /\ UNCHANGED <<_previously_present, presence_log, changes, posted,
                   regVars, storeVars, nmVars, clVars, laVars, thrVars, whVars, snVars, errVars, apiVars, rkVars, sgVars, rqVars>>

NextThreads ==
    \/ \E t \in Threads :
        ThreadGet(t) \/ ThreadCommit(t) \/ ThreadDetectRead(t) \/ ThreadDetectWrite(t)
    \/ ThreadTick

SpecThreads == Init /\ [][NextThreads]_vars

\* C16: with ingestion invoked from several backends at once, the log never
\* holds two "arrive" rows, or two "depart" rows, of one MAC without a row
\* of the opposite transition of that MAC between them.
NoRepeatedTransition ==
    \A i, j \in 1..Len(presence_log) :
        (/\ i < j
         /\ presence_log[i].mac_address = presence_log[j].mac_address
         /\ presence_log[i].event_type = presence_log[j].event_type)
        => \E k \in (i + 1)..(j - 1) :
               /\ presence_log[k].mac_address = presence_log[i].mac_address
               /\ presence_log[k].event_type # presence_log[i].event_type

(***************************************************************************)
(* The handler on the event loop, webhook by webhook.  A polling backend   *)
(* calls the handler for each event of a poll inside its coroutine;        *)
(* dispatch_webhooks posts with a blocking httpx.Client (timeout 10 s)     *)
(* inside the handler's "with Session(engine)" block.                      *)
(***************************************************************************)

\* What one poll of the backend finds at an instant: both devices.
PollBatch(at) ==
    <<BeaconEvent(Spell(AddrBurned, "colon_upper"), <<"mock", -45, "TestNet">>, at),
      BeaconEvent(Spell(AddrRandom, "colon_upper"), <<"mock", -80, NoneStr>>, at)>>

\* _poll_loop: the backend builds the events of one poll.
Poll ==
    /\ pc["event_loop"] = "idle"
    /\ inbox = <<>>
    /\ inbox' = PollBatch(now)
    /\ UNCHANGED <<session_open, outstanding, regVars, storeVars, nmVars, clVars,
                   laVars, presVars, thrVars, snVars, errVars, apiVars, rkVars, sgVars, rqVars>>

\* cb(event): the handler up to the call of dispatch_webhooks.  With no
\* payload it returns; with payloads it stays in dispatch_webhooks, the
\* session open.
HandlerStart ==
    /\ pc["event_loop"] = "idle"
    /\ inbox # <<>>
    /\ HandleBeaconEvent(Head(inbox))
    /\ inbox' = Tail(inbox)
    /\ \E pass \in detect_presence_changes(devices', presence_log, _previously_present,
                                           now, presence_grace_period) :
        LET device == devices'[normalize_mac(Head(inbox).mac_address)]
            payloads == all_payloads(rules, links, pass.changes, device_name_of(device))
        IN  /\ Len(pass.log) <= MaxLog
            /\ changes' = pass.changes
            /\ presence_log' = pass.log
            /\ _previously_present' = pass.previous
            /\ posted' = <<>>
            /\ outstanding' = dispatch_webhooks(payloads)
            /\ session_open' = (payloads # <<>>)
            /\ pc' = [pc EXCEPT !["event_loop"] =
                         IF payloads # <<>> THEN "dispatch" ELSE "idle"]
    /\ UNCHANGED <<now, local, storeVars, nmVars, clVars, laVars, snVars, errVars, apiVars, rkVars, sgVars, rqVars>>

\* client.post(url, json=payload) returns or raises (a response, a
\* connection error, the timeout); after the last payload dispatch_webhooks
\* and the handler return and the session closes.
PostReturns ==
    /\ pc["event_loop"] = "dispatch"
    /\ IF outstanding = <<>>
       THEN UNCHANGED <<posted, outstanding, rkVars, sgVars, rqVars>>
       ELSE /\ posted' = Append(posted, Head(outstanding))
            /\ outstanding' = Tail(outstanding)
    /\ IF Len(outstanding) <= 1
       THEN /\ pc' = [pc EXCEPT !["event_loop"] = "idle"]
            /\ session_open' = FALSE
       ELSE UNCHANGED <<pc, session_open, rkVars, sgVars, rqVars>>
    /\ UNCHANGED <<now, _previously_present, presence_log, changes, inbox, local,
                   regVars, storeVars, nmVars, clVars, laVars, snVars, errVars, apiVars, rkVars, sgVars, rqVars>>

\* Time passes, also while a POST is outstanding.
WebhookTick ==
    /\ \E later \in ClockTimes : later > now /\ now' = later
    /\ UNCHANGED <<_previously_present, presence_log, changes, posted,
                   regVars, storeVars, nmVars, clVars, laVars, thrVars, whVars, snVars, errVars, apiVars, rkVars, sgVars, rqVars>>

\* An operator creates a rule for every device and both transitions.
WebhookCreateRule ==
    /\ pc["event_loop"] = "idle"
    /\ Cardinality(DOMAIN rules) < MaxRules
    /\ rules' = create_rule(rules, "rule", "http://hook", "both", NoneId, None)
    /\ UNCHANGED <<regVars, links, nmVars, clVars, moreVars>>

NextWebhook == Poll \/ HandlerStart \/ PostReturns \/ WebhookTick \/ WebhookCreateRule

SpecWebhook == Init /\ [][NextWebhook]_vars

\* C17: while a webhook POST is outstanding the invocation that matched the
\* rules has returned to the backend, which can deliver its next event, and
\* holds no open storage session.
WebhookDoesNotStallIngestion ==
    outstanding # <<>> =>
        /\ pc["event_loop"] = "idle"
        /\ ~session_open

(***************************************************************************)
(* sniffer/*.py: start() and stop() of a backend                           *)
(***************************************************************************)

\* The backend classes.  mock, ruckus, opnsense and glinet share one
\* start() and one stop(); monitor has its own stop() and captures on the
\* thread of scapy's AsyncSniffer.
Backends == {"mock", "ruckus", "opnsense", "glinet", "monitor"}

\* A cap on the number of start() calls on one object.
MaxStarts == 2

\* The backend objects followed, one of each class.
InitSniffers ==
    /\ InitRegistry
    /\ InitStore
    /\ InitNormalizeIdle
    /\ InitClassifyIdle
    /\ InitAdministeredIdle
    /\ InitPresence
    /\ InitThreads
    /\ InitWebhooks
    /\ backend \in Backends
    /\ InitSniffer
    /\ InitErrors
    /\ InitApi
    /\ InitRuckus

\* This step fires the callbacks.
Fire == fired_after_stop' = (fired_after_stop \/ stop_returned)

\* start(): self._running = True; self._task = asyncio.create_task(loop).
SnifferStart ==
    /\ \E id \in 1..MaxStarts :
        /\ id = 1 + Cardinality({i \in 1..MaxStarts : i \in tasks \/ i <= _task})
        /\ _task' = id
        /\ tasks' = tasks \cup {id}
    /\ _running' = TRUE
    /\ stop_returned' = FALSE
    /\ UNCHANGED <<backend, cancel_requested, capture_threads, fired_after_stop,
                   regVars, storeVars, nmVars, clVars, laVars, presVars, thrVars, whVars, errVars, apiVars, rkVars, sgVars, rqVars>>

\* stop() of mock, ruckus, opnsense and glinet: cancel self._task and await
\* it.  The task is suspended in an await, where the cancellation ends it;
\* awaiting a task that has completed returns at once.
PollingStop ==
    /\ backend # "monitor"
    /\ _running' = FALSE
    /\ tasks' = tasks \ {_task}
    /\ stop_returned' = TRUE
    /\ UNCHANGED <<backend, _task, cancel_requested, capture_threads, fired_after_stop,
                   regVars, storeVars, nmVars, clVars, laVars, presVars, thrVars, whVars, errVars, apiVars, rkVars, sgVars, rqVars>>

\* stop() of monitor: cancel self._task and return.
MonitorStop ==
    /\ backend = "monitor"
    /\ _running' = FALSE
    /\ cancel_requested' = cancel_requested \cup ({_task} \cap tasks)
    /\ stop_returned' = TRUE
    /\ UNCHANGED <<backend, _task, tasks, capture_threads, fired_after_stop,
                   regVars, storeVars, nmVars, clVars, laVars, presVars, thrVars, whVars, errVars, apiVars, rkVars, sgVars, rqVars>>

\* One turn of a polling or remote-capture loop: while self._running it
\* fires the callbacks for what it read and awaits again; otherwise it
\* returns.  glinet's loop awaits the next packet rather than a sleep, and
\* emits the packet it was awaiting before it tests self._running again.
LoopTurn ==
    /\ backend # "monitor"
    /\ \E id \in tasks :
        \/ /\ _running
           /\ Fire
           /\ UNCHANGED tasks
        \/ /\ ~_running
           /\ tasks' = tasks \ {id}
           /\ \/ UNCHANGED fired_after_stop
              \/ backend = "glinet" /\ Fire
    /\ UNCHANGED <<backend, _running, _task, cancel_requested, capture_threads,
                   stop_returned,
                   regVars, storeVars, nmVars, clVars, laVars, presVars, thrVars, whVars, errVars, apiVars, rkVars, sgVars, rqVars>>

\* One turn of monitor's _capture_loop.  A cancelled task gets
\* CancelledError at its await, which "except Exception" does not catch: it
\* ends without sniffer.stop().  Otherwise its first turn starts the
\* AsyncSniffer thread, or ends the task where scapy cannot be imported or
\* the interface cannot be opened; a later turn with self._running sleeps
\* again, and one without stops the thread and returns.
CaptureTurn ==
    /\ backend = "monitor"
    /\ \E id \in tasks :
        \/ /\ id \in cancel_requested
           /\ tasks' = tasks \ {id}
           /\ cancel_requested' = cancel_requested \ {id}
           /\ UNCHANGED capture_threads
        \/ /\ id \notin cancel_requested
           /\ id \notin capture_threads
           /\ \/ /\ capture_threads' = capture_threads \cup {id}
                 /\ UNCHANGED tasks
              \/ /\ tasks' = tasks \ {id}
                 /\ UNCHANGED capture_threads
           /\ UNCHANGED cancel_requested
        \/ /\ id \notin cancel_requested
           /\ id \in capture_threads
           /\ ~_running
           /\ tasks' = tasks \ {id}
           /\ capture_threads' = capture_threads \ {id}
           /\ UNCHANGED cancel_requested
    /\ UNCHANGED <<backend, _running, _task, stop_returned, fired_after_stop,
                   regVars, storeVars, nmVars, clVars, laVars, presVars, thrVars, whVars, errVars, apiVars, rkVars, sgVars, rqVars>>

\* The AsyncSniffer thread captures a probe request: _handle_packet fires
\* the callbacks.
CaptureFires ==
    /\ backend = "monitor"
    /\ capture_threads # {}
    /\ Fire
    /\ UNCHANGED <<backend, _running, _task, tasks, cancel_requested, capture_threads,
                   stop_returned,
                   regVars, storeVars, nmVars, clVars, laVars, presVars, thrVars, whVars, errVars, apiVars, rkVars, sgVars, rqVars>>

NextSniffers ==
    SnifferStart \/ PollingStop \/ MonitorStop \/ LoopTurn \/ CaptureTurn \/ CaptureFires

SpecSniffers == InitSniffers /\ [][NextSniffers]_vars

\* C18: when stop() has returned, the task it cancelled has completed and
\* the backend fires no callback, whichever the backend.
StopEndsCapture ==
    stop_returned =>
        /\ _task \notin tasks
        /\ ~fired_after_stop

\* C19: at most one capture task of a backend runs at any time, and none
\* survives a stop(), however start() and stop() are called.
AtMostOneCaptureTask ==
    /\ Cardinality(tasks) <= 1
    /\ stop_returned => tasks = {}

(***************************************************************************)
(* main.py: _handle_beacon_event when one of its calls raises              *)
(***************************************************************************)

\* The calls of the handler that can raise an Exception.
Stages ==
    {"upsert_device", "reclassify_device", "detect_presence_changes",
     "evaluate_presence_change", "dispatch_webhooks"}

\* The except clause that catches an Exception raised by a call
\* (main.py:83-106; manager.py:194-220): client.post inside
\* dispatch_webhooks is caught by dispatch_webhooks itself, the presence
\* and alert calls by the handler's inner try, the rest by its outer try.
except_clause_inner_only(stage) ==
    CASE stage = "dispatch_webhooks" -> "dispatch_webhooks"
      [] stage \in {"detect_presence_changes", "evaluate_presence_change"} -> "inner"
      [] OTHER -> "uncaught"
except_clause(stage) ==
    CASE stage = "dispatch_webhooks" -> "dispatch_webhooks"
      [] stage \in {"detect_presence_changes", "evaluate_presence_change"} -> "inner"
      [] OTHER -> "outer"

\* What the clause logs: the outer clause names event.mac_address, the
\* others do not.
logged(clause, event) ==
    [clause |-> clause,
     mac_address |-> IF clause = "outer" THEN event.mac_address ELSE <<>>]

\* The events delivered while failures are followed: a sighting of
\* 08:00:27:aa:bb:cc at the instant, or its disassociation stamped with
\* the epoch.
FailureEvents(at) ==
    {BeaconEvent(Spell(AddrBurned, "colon_upper"), <<"mock", -45, "TestNet">>, at),
     BeaconEvent(Spell(AddrBurned, "colon_upper"), <<"ruckus_event", 0, "TestNet">>, 0)}

\* _handle_beacon_event(event) where the call named by stage raises.  What
\* was committed before the call stays: upsert_device raising leaves the
\* table as it was (the session is rolled back when its block is left),
\* reclassify_device raising leaves the upserted row, and the calls after
\* them leave the row upserted and reclassified.
FailingHandler(event, stage) ==
    LET upserted == upsert_device(devices, event)
        after == Ingested(devices, event)
        device == after[normalize_mac(event.mac_address)]
        clause == except_clause(stage)
    IN  /\ \A mac \in DOMAIN after : after[mac].visit_count <= MaxVisits
        /\ lastEvent' = event
        /\ failed_at' = stage
        /\ propagated' = (propagated \/ clause = "uncaught")
        /\ error_log' = IF clause = "uncaught"
                        THEN error_log
                        ELSE error_log \cup {logged(clause, event)}
        /\ posted' = <<>>
        /\ CASE stage = "upsert_device" ->
                  UNCHANGED <<devices, _previously_present, presence_log, changes, rkVars, sgVars, rqVars>>
             [] stage = "reclassify_device" ->
                  /\ devices' = upserted.session
                  /\ UNCHANGED <<_previously_present, presence_log, changes, rkVars, sgVars, rqVars>>
             [] stage = "detect_presence_changes" ->
                  /\ devices' = after
                  /\ UNCHANGED <<_previously_present, presence_log, changes, rkVars, sgVars, rqVars>>
             [] OTHER ->
                  /\ devices' = after
                  /\ \E pass \in detect_presence_changes(
                            after, presence_log, _previously_present,
                            now, presence_grace_period) :
                        /\ Len(pass.log) <= MaxLog
                        /\ pass.changes # <<>>
                        /\ stage = "dispatch_webhooks" =>
                              dispatch_webhooks(all_payloads(
                                  rules, links, pass.changes,
                                  device_name_of(device))) # <<>>
                        /\ changes' = pass.changes
                        /\ presence_log' = pass.log
                        /\ _previously_present' = pass.previous

\* A backend delivers an event and one call of the handler raises.
FailureIngest ==
    /\ \E event \in FailureEvents(now), stage \in Stages : FailingHandler(event, stage)
    /\ UNCHANGED <<now, storeVars, nmVars, clVars, laVars, thrVars, whVars, snVars, apiVars, rkVars, sgVars, rqVars>>

\* A backend delivers an event and no call of the handler raises.
CleanIngest ==
    /\ \E event \in FailureEvents(now) : _handle_beacon_event(event)
    /\ failed_at' = "none"
    /\ UNCHANGED <<now, propagated, error_log,
                   storeVars, nmVars, clVars, laVars, thrVars, whVars, snVars, apiVars, rkVars, sgVars, rqVars>>

NextFailures ==
    FailureIngest \/ CleanIngest \/ Tick \/ PresenceCreateRule

SpecFailures == Init /\ [][NextFailures]_vars

\* C20: no handler invocation lets an exception out; an invocation in which
\* a call raised has logged it; and an invocation in which none raised has
\* ingested its event, whatever failed before it.
FailuresAreSwallowed ==
    [][PassStep =>
        /\ ~propagated'
        /\ failed_at' # "none" => \E entry \in error_log' : entry.clause = except_clause(failed_at')
        /\ failed_at' = "none" => devices' = Ingested(devices, lastEvent')
      ]_vars

\* An event was ingested after the outer, the inner and the dispatch clause
\* each caught a failure.
IngestedAfterFailures ==
    /\ failed_at = "none"
    /\ {entry.clause : entry \in error_log} = {"outer", "inner", "dispatch_webhooks"}
    /\ lastEvent # NoEvent
    /\ normalize_mac(lastEvent.mac_address) \in DOMAIN devices
    /\ devices[normalize_mac(lastEvent.mac_address)].last_seen = lastEvent.timestamp

(***************************************************************************)
(* alerts/manager.py: evaluate_presence_change against the trigger filter  *)
(* and the enabled flag                                                    *)
(***************************************************************************)

TriggerTypes == {"arrive", "depart", "both"}
EventTypes == {"arrive", "depart"}

\* 08:00:27:aa:bb:cc is sighted and registered.
SightingOfBurned ==
    BeaconEvent(Spell(AddrBurned, "colon_upper"), <<"mock", -45, "TestNet">>, 0)
AlertIngest ==
    /\ HandleBeaconEvent(SightingOfBurned)
    /\ UNCHANGED <<links, rules, nmVars, clVars, moreVars>>

\* An operator creates a wildcard rule of some trigger type.
TriggerCreateRule ==
    /\ next_id(rules) <= MaxRules
    /\ \E trigger_type \in TriggerTypes :
        rules' = create_rule(rules, "rule", "http://hook", trigger_type, NoneId, None)
    /\ UNCHANGED <<regVars, links, nmVars, clVars, moreVars>>

\* An operator disables or enables a rule.
SetEnabled ==
    /\ \E rule_id \in DOMAIN rules, enabled \in BOOLEAN :
        rules' = update_rule(rules, rule_id, [enabled |-> enabled])
    /\ UNCHANGED <<regVars, links, nmVars, clVars, moreVars>>

\* An operator deletes a rule.
DeleteRule ==
    /\ \E rule_id \in DOMAIN rules : rules' = delete_rule(rules, rule_id)
    /\ UNCHANGED <<regVars, links, nmVars, clVars, moreVars>>

\* An operator assigns 08:00:27:aa:bb:cc to person 1.
TriggerAssign ==
    /\ LET mac == Spell(AddrBurned, "dash_lower")
       IN  \E existing_link \in first_link(links, normalize_mac(mac)) :
               links' = assign_device(devices, links, 1, mac, existing_link).links
    /\ UNCHANGED <<regVars, rules, nmVars, clVars, moreVars>>

\* evaluate_presence_change called on the tables as they are: the arguments
\* and the result.
Evaluated(mac, event_type, person_name) ==
    [op |-> "evaluate", mac_address |-> mac, event_type |-> event_type,
     person_name |-> person_name,
     out |-> evaluate_presence_change(persons, rules, links, mac,
                                      event_type, NoneStr, person_name)]

\* The call as the ingestion handler makes it, for the registered and for
\* an unregistered device.
TriggerEvaluate ==
    /\ \E mac \in {Spell(AddrBurned, "colon_upper"), Spell(AddrRandom, "colon_upper")},
          event_type \in EventTypes :
        evCall' = Evaluated(mac, event_type, NoneStr)
    /\ UNCHANGED <<regVars, storeVars, nmVars, clVars, laVars, presVars, thrVars,
                   whVars, snVars, errVars, persons, dpCall, asCall, rkVars, sgVars, rqVars>>

NextTriggers ==
    \/ AlertIngest
    \/ TriggerCreateRule
    \/ SetEnabled
    \/ DeleteRule
    \/ TriggerAssign
    \/ TriggerEvaluate

SpecTriggers == Init /\ [][NextTriggers]_vars

\* A step that is a call of evaluate_presence_change.
EvaluateStep == evCall' # evCall

\* The rule ids of the payloads returned by the last call.
RuleIdsOf(out) == {out[k].rule_id : k \in 1..Len(out)}

\* How many payloads of the result are for a rule.
PayloadsFor(out, rule_id) == Cardinality({k \in 1..Len(out) : out[k].rule_id = rule_id})

\* C21: no payload is for a rule whose trigger type does not match the
\* event: none for an arrive rule on "depart", none for a depart rule on
\* "arrive"; a "both" rule for every device is not filtered out by either.
TriggerTypeIsRespected ==
    [][EvaluateStep =>
        \A rule_id \in DOMAIN rules :
            LET rule == rules[rule_id]
                hits == PayloadsFor(evCall'.out, rule_id)
            IN  /\ (rule.trigger_type = "arrive" /\ evCall'.event_type = "depart")
                        => hits = 0
                /\ (rule.trigger_type = "depart" /\ evCall'.event_type = "arrive")
                        => hits = 0
                /\ (/\ rule.trigger_type = "both" /\ rule.enabled
                    /\ rule.person_id = NoneId /\ rule.mac_address = None) => hits = 1
      ]_vars

\* A departure was evaluated with an enabled arrive rule and an enabled
\* both rule: the arrive rule gave nothing, the both rule a payload.
DepartureSkippedArriveRule ==
    /\ evCall.op = "evaluate"
    /\ evCall.event_type = "depart"
    /\ \E a, b \in DOMAIN rules :
        /\ rules[a].enabled /\ rules[a].trigger_type = "arrive"
        /\ rules[b].enabled /\ rules[b].trigger_type = "both"
        /\ RuleIdsOf(evCall.out) = {b}

\* A rule for every device: no person id, no MAC.
IsWildcard(rule) == rule.person_id = NoneId /\ rule.mac_address = None

\* The trigger filter as the rule's owner reads it.
TriggerAdmits(rule, event_type) == rule.trigger_type \in {"both", event_type}

\* The person the PersonDevice relation gives a MAC, None where it gives none.
LinkedPersonId(mac) ==
    IF \E l \in links : SameAddress(l.mac_address, mac)
    THEN (CHOOSE l \in links : SameAddress(l.mac_address, mac)).person_id
    ELSE NoneId

\* A rule matches a change: its trigger admits the event type and, in this
\* order, its person is the one linked to the MAC, or its MAC is the MAC of
\* the change, or it has neither.
Matches(rule, mac, event_type) ==
    /\ TriggerAdmits(rule, event_type)
    /\ IF rule.person_id # NoneId THEN LinkedPersonId(mac) = rule.person_id
       ELSE IF rule.mac_address # None THEN SameAddress(rule.mac_address, mac)
       ELSE TRUE

\* C24: an enabled wildcard rule gives exactly one payload for every device
\* and event type its trigger filter admits, be the device registered or
\* not, linked to a person or not.
WildcardMatchesEveryDevice ==
    [][EvaluateStep =>
        \A rule_id \in DOMAIN rules :
            (/\ rules[rule_id].enabled
             /\ IsWildcard(rules[rule_id])
             /\ TriggerAdmits(rules[rule_id], evCall'.event_type))
                => PayloadsFor(evCall'.out, rule_id) = 1
      ]_vars

\* A wildcard rule gave its payload for a device that is not in the
\* registry, while the registered device is linked to a person.
WildcardMatchedUnregistered ==
    /\ evCall.op = "evaluate"
    /\ normalize_mac(evCall.mac_address) \notin DOMAIN devices
    /\ links # {}
    /\ \E rule_id \in DOMAIN rules :
        /\ rules[rule_id].enabled
        /\ rules[rule_id].trigger_type = "arrive"
        /\ evCall.event_type = "arrive"
        /\ PayloadsFor(evCall.out, rule_id) = 1

\* C25: the payloads are for rules that exist and are enabled when the call
\* is made, and every enabled rule that matches has exactly one: a rule
\* disabled or deleted before the call has none.
OnlyEnabledRulesFire ==
    [][EvaluateStep =>
        /\ \A k \in 1..Len(evCall'.out) :
            /\ evCall'.out[k].rule_id \in DOMAIN rules
            /\ rules[evCall'.out[k].rule_id].enabled
        /\ \A rule_id \in DOMAIN rules :
            PayloadsFor(evCall'.out, rule_id) =
                IF /\ rules[rule_id].enabled
                   /\ Matches(rules[rule_id], evCall'.mac_address, evCall'.event_type)
                THEN 1 ELSE 0
      ]_vars

\* A call made after one rule was disabled: the disabled rule, which would
\* match, has no payload and the other rule has one.
DisabledRuleStayedSilent ==
    /\ evCall.op = "evaluate"
    /\ \E off, on \in DOMAIN rules :
        /\ ~rules[off].enabled
        /\ TriggerAdmits(rules[off], evCall.event_type)
        /\ rules[on].enabled
        /\ RuleIdsOf(evCall.out) = {on}

(***************************************************************************)
(* alerts/manager.py: evaluate_presence_change against the person and MAC  *)
(* filters                                                                 *)
(***************************************************************************)

\* An operator creates a person, or deletes one.
TargetCreatePerson ==
    /\ create_person(persons) \subseteq PersonIds
    /\ persons' = create_person(persons)
    /\ UNCHANGED <<regVars, storeVars, nmVars, clVars, laVars, presVars, thrVars,
                   whVars, snVars, errVars, evCall, dpCall, asCall, rkVars, sgVars, rqVars>>

TargetDeletePerson ==
    /\ \E person_id \in PersonIds :
        LET deleted == delete_person(persons, links, person_id)
        IN  /\ persons' = deleted.persons
            /\ links' = deleted.links
    /\ UNCHANGED <<regVars, rules, nmVars, clVars, laVars, presVars, thrVars,
                   whVars, snVars, errVars, evCall, dpCall, asCall, rkVars, sgVars, rqVars>>

\* An operator assigns 08:00:27:aa:bb:cc to a person id, or takes it away.
TargetAssign ==
    /\ \E person_id \in PersonIds :
        LET mac == Spell(AddrBurned, "dash_lower")
        IN  \E existing_link \in first_link(links, normalize_mac(mac)) :
                links' = assign_device(devices, links, person_id, mac, existing_link).links
    /\ UNCHANGED <<regVars, rules, nmVars, clVars, moreVars>>

TargetUnassign ==
    /\ \E person_id \in PersonIds :
        links' = unassign_device(links, person_id, Spell(AddrBurned, "colon_lower")).links
    /\ UNCHANGED <<regVars, rules, nmVars, clVars, moreVars>>

\* The targets of the rules an operator creates: person 1 with the MAC of a
\* device that is not theirs; the MAC 08:00:27:aa:bb:cc, dotted or bare.
TargetShapes ==
    {<<1, Spell(AddrRandom, "colon_lower")>>,
     <<NoneId, Spell(AddrBurned, "dot_lower")>>,
     <<NoneId, Spell(AddrBurned, "bare_upper")>>}

TargetCreateRule ==
    /\ next_id(rules) <= MaxRules
    /\ \E shape \in TargetShapes :
        rules' = create_rule(rules, "rule", "http://hook", "both", shape[1], shape[2])
    /\ UNCHANGED <<regVars, links, nmVars, clVars, moreVars>>

\* An operator gives a rule the MAC 08-00-27-aa-bb-cc.
TargetUpdateRule ==
    /\ \E rule_id \in DOMAIN rules :
        rules' = update_rule(rules, rule_id,
                             [mac_address |-> Spell(AddrBurned, "dash_lower")])
    /\ UNCHANGED <<regVars, links, nmVars, clVars, moreVars>>

\* evaluate_presence_change for an arrival of either device, with and
\* without person_name.
TargetEvaluate ==
    /\ \E mac \in {Spell(AddrBurned, "dash_lower"), Spell(AddrRandom, "colon_lower")},
          person_name \in {NoneStr, "Alice"} :
        evCall' = Evaluated(mac, "arrive", person_name)
    /\ UNCHANGED <<regVars, storeVars, nmVars, clVars, laVars, presVars, thrVars,
                   whVars, snVars, errVars, persons, dpCall, asCall, rkVars, sgVars, rqVars>>

NextTargets ==
    \/ AlertIngest
    \/ TargetCreatePerson
    \/ TargetDeletePerson
    \/ TargetAssign
    \/ TargetUnassign
    \/ TargetCreateRule
    \/ TargetUpdateRule
    \/ DeleteRule
    \/ TargetEvaluate

SpecTargets == Init /\ [][NextTargets]_vars

\* C22: an enabled rule with a person id gives a payload exactly when the
\* person the event's MAC is linked to is that person, whatever MAC the rule
\* carries; a MAC linked to nobody or to somebody else gives none.
PersonRuleFollowsLink ==
    [][EvaluateStep =>
        \A rule_id \in DOMAIN rules :
            (rules[rule_id].enabled /\ rules[rule_id].person_id # NoneId)
                => PayloadsFor(evCall'.out, rule_id) =
                       IF LinkedPersonId(evCall'.mac_address) = rules[rule_id].person_id
                       THEN 1 ELSE 0
      ]_vars

\* C23: an enabled rule with no person id and a MAC gives a payload exactly
\* when its MAC and the event's MAC are the same address, in whatever
\* spelling the rule's MAC was given and the event's MAC is given.
MacRuleMatchesAnySpelling ==
    [][EvaluateStep =>
        \A rule_id \in DOMAIN rules :
            (/\ rules[rule_id].enabled
             /\ rules[rule_id].person_id = NoneId
             /\ rules[rule_id].mac_address # None)
                => PayloadsFor(evCall'.out, rule_id) =
                       IF SameAddress(rules[rule_id].mac_address, evCall'.mac_address)
                       THEN 1 ELSE 0
      ]_vars

\* A rule created with a MAC matched an event that spells the MAC with
\* dashes in lowercase.
MacRuleMatchedDashedEvent ==
    /\ evCall.op = "evaluate"
    /\ evCall.mac_address = Spell(AddrBurned, "dash_lower")
    /\ \E rule_id \in DOMAIN rules :
        /\ rules[rule_id].person_id = NoneId
        /\ rules[rule_id].mac_address # None
        /\ PayloadsFor(evCall.out, rule_id) = 1

(***************************************************************************)
(* alerts/manager.py: dispatch_webhooks and what it returns                *)
(***************************************************************************)

\* What a target does with a POST: it answers with a status code, or the
\* transport raises (connection refused, timeout).
Responses == {"200", "500", "exception"}

\* The status code of an answer.
status_code(response) == IF response = "200" THEN 200 ELSE 500

\* The payload as POSTed: without its "_webhook_url" key.
body_of(payload) == [key \in DOMAIN payload \ {"_webhook_url"} |-> payload[key]]

\* The result appended for a payload, given what its target did
\* (manager.py:194-229).
result_of(payload, response) ==
    IF response = "exception"
    THEN [payload |-> body_of(payload), url |-> payload._webhook_url,
          status_code |-> NoneId, success |-> FALSE, error |-> "Connection failed"]
    ELSE [payload |-> body_of(payload), url |-> payload._webhook_url,
          status_code |-> status_code(response),
          success |-> status_code(response) \in 200..299]

\* dispatch_webhooks(payloads) where responses[k] is what the target of
\* payloads[k] does: the results returned, the POSTs made (as indexes into
\* payloads) and whether the call raised.  A payload without a URL is
\* logged and skipped: it gets no POST and no result.
RECURSIVE dispatch_from(_, _, _)
dispatch_from_fail_fast(payloads, responses, k) ==
    IF k > Len(payloads) THEN [results |-> <<>>, posts |-> <<>>, raised |-> FALSE]
    ELSE IF ~Truthy(payloads[k]._webhook_url) THEN dispatch_from(payloads, responses, k + 1)
    ELSE IF responses[k] = "exception"
    THEN [results |-> <<>>, posts |-> <<k>>, raised |-> TRUE]
    ELSE LET rest == dispatch_from(payloads, responses, k + 1)
         IN  [results |-> <<result_of(payloads[k], responses[k])>> \o rest.results,
              posts |-> <<k>> \o rest.posts,
              raised |-> rest.raised]
dispatch_from_result_per_payload(payloads, responses, k) ==
    IF k > Len(payloads) THEN [results |-> <<>>, posts |-> <<>>, raised |-> FALSE]
    ELSE LET rest == dispatch_from(payloads, responses, k + 1)
         IN  IF ~Truthy(payloads[k]._webhook_url)
             THEN [results |-> <<result_of(payloads[k], "exception")>> \o rest.results,
                   posts |-> rest.posts,
                   raised |-> rest.raised]
             ELSE [results |-> <<result_of(payloads[k], responses[k])>> \o rest.results,
                   posts |-> <<k>> \o rest.posts,
                   raised |-> rest.raised]
dispatch_from(payloads, responses, k) ==
    IF k > Len(payloads) THEN [results |-> <<>>, posts |-> <<>>, raised |-> FALSE]
    ELSE LET rest == dispatch_from(payloads, responses, k + 1)
         IN  IF ~Truthy(payloads[k]._webhook_url) THEN rest
             ELSE [results |-> <<result_of(payloads[k], responses[k])>> \o rest.results,
                   posts |-> <<k>> \o rest.posts,
                   raised |-> rest.raised]

\* The webhook URLs an operator gives: one that answers, one more, and the
\* empty string, which CreateAlertRuleRequest accepts.
WebhookUrls == {"http://hook", "http://other", ""}

DispatchCreateRule ==
    /\ next_id(rules) <= MaxRules
    /\ \E webhook_url \in WebhookUrls :
        rules' = create_rule(rules, "rule", webhook_url, "both", NoneId, None)
    /\ UNCHANGED <<regVars, links, nmVars, clVars, moreVars>>

\* The ingestion handler's alert step for one change: the payloads of
\* evaluate_presence_change are given to dispatch_webhooks, and each target
\* answers or fails.
DispatchCall ==
    /\ \E event_type \in EventTypes :
        LET payloads == evaluate_presence_change(persons, rules, links,
                            Spell(AddrBurned, "colon_upper"), event_type,
                            NoneStr, NoneStr)
        IN  \E responses \in [1..Len(payloads) -> Responses] :
                LET done == dispatch_from(payloads, responses, 1)
                IN  dpCall' = [op |-> "dispatch", payloads |-> payloads,
                               responses |-> responses, results |-> done.results,
                               posts |-> done.posts, raised |-> done.raised]
    /\ UNCHANGED <<regVars, storeVars, nmVars, clVars, laVars, presVars, thrVars,
                   whVars, snVars, errVars, persons, evCall, asCall, rkVars, sgVars, rqVars>>

NextDispatch == DispatchCreateRule \/ DispatchCall

SpecDispatch == Init /\ [][NextDispatch]_vars

\* The positions of the payloads that carry a URL, in order.
WithUrl(payloads) ==
    SelectSeq([k \in 1..Len(payloads) |-> k],
              LAMBDA k : payloads[k]._webhook_url \notin {NoneStr, ""})

PersonaIngest ==
    /\ \E addr \in {AddrBurned, AddrRandom} :
        HandleBeaconEvent(BeaconEvent(Spell(addr, "colon_upper"),
                                      <<"mock", -45, "TestNet">>, 0))
    /\ UNCHANGED <<links, rules, nmVars, clVars, moreVars>>

PersonaCreatePerson ==
    /\ create_person(persons) \subseteq PersonIds
    /\ persons' = create_person(persons)
    /\ asCall' = [op |-> "create_person"]
    /\ UNCHANGED <<regVars, storeVars, nmVars, clVars, laVars, presVars, thrVars,
                   whVars, snVars, errVars, evCall, dpCall, rkVars, sgVars, rqVars>>

PersonaDeletePerson ==
    /\ \E person_id \in PersonIds :
        LET deleted == delete_person(persons, links, person_id)
        IN  /\ persons' = deleted.persons
            /\ links' = deleted.links
            /\ asCall' = [op |-> "delete_person", person_id |-> person_id,
                          result |-> deleted.result]
    /\ UNCHANGED <<regVars, rules, nmVars, clVars, laVars, presVars, thrVars,
                   whVars, snVars, errVars, evCall, dpCall, rkVars, sgVars, rqVars>>

\* The MACs an operator types when assigning: two registrable devices and
\* one that is never registered.
AssignableMacs ==
    {Spell(AddrBurned, "dash_lower"), Spell(AddrRandom, "colon_upper"),
     Spell(AddrTest, "colon_lower")}

\* One assign_device call, from its first query to its commit or error.
\* asCall keeps what the call was given, the links before and after it and
\* how it ended.
PersonaAssign ==
    /\ \E person_id \in PersonIds, mac_address \in AssignableMacs :
        \E existing_link \in first_link(links, normalize_mac(mac_address)) :
            LET assigned == assign_device(devices, links, person_id, mac_address,
                                          existing_link)
            IN  /\ links' = assigned.links
                /\ asCall' = [op |-> "assign_device", person_id |-> person_id,
                              mac |-> normalize_mac(mac_address),
                              registered |-> normalize_mac(mac_address) \in DOMAIN devices,
                              before |-> links, after |-> assigned.links,
                              result |-> assigned.result]
    /\ UNCHANGED <<regVars, rules, nmVars, clVars, laVars, presVars, thrVars,
                   whVars, snVars, errVars, persons, evCall, dpCall, rkVars, sgVars, rqVars>>

PersonaUnassign ==
    /\ \E person_id \in PersonIds, mac_address \in AssignableMacs :
        LET unassigned == unassign_device(links, person_id, mac_address)
        IN  /\ links' = unassigned.links
            /\ asCall' = [op |-> "unassign_device", person_id |-> person_id,
                          mac |-> normalize_mac(mac_address),
                          result |-> unassigned.result]
    /\ UNCHANGED <<regVars, rules, nmVars, clVars, laVars, presVars, thrVars,
                   whVars, snVars, errVars, persons, evCall, dpCall, rkVars, sgVars, rqVars>>

NextPersona ==
    \/ PersonaIngest
    \/ PersonaCreatePerson
    \/ PersonaDeletePerson
    \/ PersonaAssign
    \/ PersonaUnassign

SpecPersona == Init /\ [][NextPersona]_vars

\* The persons a MAC is linked to in a PersonDevice table.
OwnersOf(person_devices, mac) ==
    {l.person_id : l \in {k \in person_devices : k.mac_address = mac}}

\* C28: under calls made one at a time every MAC is linked to at most one
\* person: PersonDevice is a partial function from MAC to person.
AtMostOneOwner ==
    \A l1 \in links, l2 \in links :
        l1.mac_address = l2.mac_address => l1.person_id = l2.person_id

\* Both registered devices are linked, and the last call tried to give one
\* of them to a second person and was refused.
SecondOwnerRefused ==
    /\ asCall.op = "assign_device"
    /\ asCall.result = "ValueError: already assigned"
    /\ Cardinality(links) = 2
    /\ asCall.person_id \notin OwnersOf(links, asCall.mac)

AssignErrors == {"ValueError: does not exist", "ValueError: already assigned"}

\* C29: assign_device fails with "does not exist" when the device is not
\* registered and with "already assigned" when the MAC is linked to a
\* different person, and a failed call leaves the links exactly as they were.
AssignErrorsChangeNothing ==
    asCall.op = "assign_device" =>
        /\ ~asCall.registered => asCall.result = "ValueError: does not exist"
        /\ (asCall.registered /\ OwnersOf(asCall.before, asCall.mac) \ {asCall.person_id} # {})
               => asCall.result = "ValueError: already assigned"
        /\ asCall.result \in AssignErrors =>
               /\ asCall.after = asCall.before
               /\ links = asCall.after

\* A MAC that was never registered was refused while other links existed,
\* and they are all still there.
UnregisteredRefused ==
    /\ asCall.op = "assign_device"
    /\ asCall.result = "ValueError: does not exist"
    /\ asCall.before # {}
    /\ links = asCall.before

\* C30: assigning a MAC to the person who already owns it succeeds with the
\* existing link and leaves the links unchanged.
AssignIsIdempotent ==
    (/\ asCall.op = "assign_device"
     /\ [person_id |-> asCall.person_id, mac_address |-> asCall.mac] \in asCall.before)
        => /\ asCall.result = "existing link"
           /\ asCall.after = asCall.before
           /\ links = asCall.after

\* The owner was assigned their own device again.
AssignedAgain ==
    /\ asCall.op = "assign_device"
    /\ asCall.result = "existing link"
    /\ [person_id |-> asCall.person_id, mac_address |-> asCall.mac] \in links

(***************************************************************************)
(* persona/engine.py: which persons are present                            *)
(***************************************************************************)

\* get_person_devices: the Device rows joined to the person's PersonDevice
\* rows, as MACs.
get_person_devices(person_devices, session, person_id) ==
    {mac \in DOMAIN session :
        [person_id |-> person_id, mac_address |-> mac] \in person_devices}

\* get_present_persons that calls a person present who has any device.
get_present_persons_any_linked(person_table, person_devices, session, at, grace_seconds) ==
    [person \in person_table |->
        LET present_person_devices == get_person_devices(person_devices, session, person)
        IN  [present_devices |-> present_person_devices,
             is_present |-> Cardinality(present_person_devices) > 0]]

\* get_present_persons at the instant `at`: one entry per Person row, with
\* the person's devices that are in the present set.
get_present_persons(person_table, person_devices, session, at, grace_seconds) ==
    [person \in person_table |->
        LET present_macs == get_present_devices(session, at, grace_seconds)
            present_person_devices ==
                {mac \in get_person_devices(person_devices, session, person) :
                    mac \in present_macs}
        IN  [present_devices |-> present_person_devices,
             is_present |-> Cardinality(present_person_devices) > 0]]

\* A backend sights 08:00:27:aa:bb:cc or fa:12:34:56:78:9a now.
PersonsIngest ==
    /\ \E addr \in {AddrBurned, AddrRandom} :
        HandleBeaconEvent(BeaconEvent(Spell(addr, "colon_upper"),
                                      <<"mock", -45, "TestNet">>, now))
    /\ asCall' = NoCall
    /\ UNCHANGED <<storeVars, nmVars, clVars, laVars, presVars, thrVars,
                   whVars, snVars, errVars, persons, evCall, dpCall, rkVars, sgVars, rqVars>>

\* Time passes.
PersonsTick ==
    /\ \E later \in ClockTimes : later > now /\ now' = later
    /\ asCall' = NoCall
    /\ UNCHANGED <<regVars, storeVars, nmVars, clVars, laVars,
                   _previously_present, presence_log, changes, posted,
                   thrVars, whVars, snVars, errVars, persons, evCall, dpCall, rkVars, sgVars, rqVars>>

\* An operator adds a person.
PersonsCreatePerson ==
    /\ create_person(persons) \subseteq PersonIds
    /\ persons' = create_person(persons)
    /\ asCall' = NoCall
    /\ UNCHANGED <<regVars, storeVars, nmVars, clVars, laVars, presVars, thrVars,
                   whVars, snVars, errVars, evCall, dpCall, rkVars, sgVars, rqVars>>

\* An operator assigns one of the two devices to a person, or takes it
\* away.
PersonsAssign ==
    /\ \E person_id \in PersonIds, addr \in {AddrBurned, AddrRandom} :
        LET mac == Spell(addr, "dash_lower")
        IN  \E existing_link \in first_link(links, normalize_mac(mac)) :
                links' = assign_device(devices, links, person_id, mac, existing_link).links
    /\ asCall' = NoCall
    /\ UNCHANGED <<regVars, rules, nmVars, clVars, laVars, presVars, thrVars,
                   whVars, snVars, errVars, persons, evCall, dpCall, rkVars, sgVars, rqVars>>

PersonsUnassign ==
    /\ \E person_id \in PersonIds, addr \in {AddrBurned, AddrRandom} :
        links' = unassign_device(links, person_id, Spell(addr, "colon_lower")).links
    /\ asCall' = NoCall
    /\ UNCHANGED <<regVars, rules, nmVars, clVars, laVars, presVars, thrVars,
                   whVars, snVars, errVars, persons, evCall, dpCall, rkVars, sgVars, rqVars>>

\* GET /persons/present: asCall keeps what get_present_persons returned
\* until the tables or the clock change.
PresentPersonsCall ==
    /\ asCall' = [op |-> "get_present_persons",
                  result |-> get_present_persons(persons, links, devices, now,
                                                 presence_grace_period)]
    /\ UNCHANGED <<regVars, storeVars, nmVars, clVars, laVars, presVars, thrVars,
                   whVars, snVars, errVars, persons, evCall, dpCall, rkVars, sgVars, rqVars>>

NextPersons ==
    \/ PersonsIngest
    \/ PersonsTick
    \/ PersonsCreatePerson
    \/ PersonsAssign
    \/ PersonsUnassign
    \/ PresentPersonsCall

SpecPersons == Init /\ [][NextPersons]_vars

\* C31: get_present_persons has one entry for every person, and the entry
\* says present exactly when some device linked to the person was last seen
\* no more than the grace period ago; a person without devices is not
\* present.
PresentIffSomeDevicePresent ==
    asCall.op = "get_present_persons" =>
        /\ DOMAIN asCall.result = persons
        /\ \A person \in persons :
            /\ asCall.result[person].is_present <=>
                  \E l \in links :
                      /\ l.person_id = person
                      /\ l.mac_address \in DOMAIN devices
                      /\ now - devices[l.mac_address].last_seen <= presence_grace_period
            /\ (~\E l \in links : l.person_id = person)
                  => ~asCall.result[person].is_present

\* The call reported two persons: one present through a device seen within
\* the grace period, the other absent although a device is linked to them.
OnePresentOneAway ==
    /\ asCall.op = "get_present_persons"
    /\ persons = {1, 2}
    /\ \E here \in persons, away \in persons :
        /\ asCall.result[here].is_present
        /\ ~asCall.result[away].is_present
        /\ \E l \in links : l.person_id = away

(***************************************************************************)
(* main.py: how many PresenceLog rows one handler invocation appends       *)
(***************************************************************************)

\* This step is an invocation of _handle_beacon_event that wrote the Device
\* table.
HandlerStep == PassStep /\ devices' # devices

\* C32 as claimed: one invocation of the handler appends at most one
\* PresenceLog row.
HandlerAppendsAtMostOneRow ==
    [][HandlerStep => Len(presence_log') <= Len(presence_log) + 1]_vars

\* C32: one invocation of the handler appends one PresenceLog row for each
\* change its detection pass returns and at most one row for any MAC, so as
\* many rows as devices changed side since the pass before.
HandlerAppendsOneRowPerChange ==
    [][HandlerStep =>
        LET appended == SubSeq(presence_log', Len(presence_log) + 1, Len(presence_log'))
        IN  /\ Len(appended) = Len(changes')
            /\ \A i, j \in 1..Len(appended) :
                   appended[i].mac_address = appended[j].mac_address => i = j
            /\ Len(appended) <= Cardinality(DOMAIN devices')
    ]_vars

\* The handler was run for a sighting and its pass logged two rows at this
\* instant: the arrival of the sighted device and the departure of another.
HandlerLoggedTwoRows ==
    /\ lastEvent # NoEvent
    /\ lastEvent.timestamp = now
    /\ Len(changes) = 2
    /\ Len(presence_log) >= 2
    /\ LET last == presence_log[Len(presence_log)]
           before == presence_log[Len(presence_log) - 1]
       IN  /\ last.timestamp = now
           /\ before.timestamp = now
           /\ {last.event_type, before.event_type} = {"arrive", "depart"}
           /\ \E row \in {last, before} :
                /\ row.event_type = "arrive"
                /\ row.mac_address = normalize_mac(lastEvent.mac_address)

(***************************************************************************)
(* The present set is a query over last_seen                               *)
(***************************************************************************)

\* C33: the present set that detect_presence_changes leaves behind, that
\* get_present_devices returns and from which get_present_persons takes each
\* person's present devices is the set of the devices whose last_seen is
\* not before now minus the grace period; a device that was present and
\* whose last_seen is before the cutoff, be it through the clock or through
\* a late event that moved last_seen backward, is reported as departed.
PresentSetIsAQuery ==
    [][PassStep =>
        LET within == {mac \in DOMAIN devices' :
                          devices'[mac].last_seen >= now' - presence_grace_period}
            by_person == get_present_persons(PersonIds, links', devices', now',
                                             presence_grace_period)
        IN  /\ _previously_present' = within
            /\ get_present_devices(devices', now', presence_grace_period) = within
            /\ \A person \in PersonIds :
                   by_person[person].present_devices =
                       {mac \in within :
                           [person_id |-> person, mac_address |-> mac] \in links'}
            /\ \A mac \in _previously_present \ within :
                   \E k \in 1..Len(changes') : changes'[k] = <<mac, "depart">>
    ]_vars

\* A device arrived at this instant, and then an event from the
\* controller's log, stamped with the epoch, moved its last_seen back and
\* the pass reported its departure.
LateEventEndedPresence ==
    /\ lastEvent # NoEvent
    /\ lastEvent.timestamp < now - presence_grace_period
    /\ LET mac == normalize_mac(lastEvent.mac_address)
       IN  /\ devices[mac].last_seen = lastEvent.timestamp
           /\ mac \notin _previously_present
           /\ changes = <<<<mac, "depart">>>>
           /\ \E k \in 1..Len(presence_log) :
                presence_log[k] = [mac_address |-> mac, event_type |-> "arrive",
                                   timestamp |-> now]

(***************************************************************************)
(* sniffer/ruckus.py: client events are emitted once while remembered      *)
(***************************************************************************)

\* The capacity of _processed_event_ids.  The code has
\* deque(maxlen=1000); the model keeps the same data structure with a small
\* capacity, so that forgetting an id is within reach.
ProcessedMaxLen == 2

\* A cap on the number of client events followed.
MaxPollLog == 5

\* deque.append with maxlen: the oldest element falls out when the deque is
\* full.
deque_append_newest_only(processed, event_id, maxlen) ==
    <<event_id>>
deque_append(processed, event_id, maxlen) ==
    IF Len(processed) < maxlen THEN Append(processed, event_id)
    ELSE Append(Tail(processed), event_id)

\* f"{ev.get('time')}:{ev.get('client')}:{ev.get('event')}": the three
\* fields, which the string determines for a MAC and an event name of the
\* controller.
event_id_of(ev) == <<ev.time, ev.client, ev.event>>

\* "disassoc" in event_type.lower()
is_disassoc(event_type) ==
    event_type \in {"client_disassociated", "Client Disassoc"}

\* What get_client_events can hold: disassociations and joins of one
\* client at three instants.
ClientEvents ==
    [time : 1..3, client : {Spell(AddrBurned, "colon_lower")},
     event : {"client_disassociated", "client_joined"}]

\* One turn of the loop over get_client_events() for the event ev
\* (ruckus.py:119-154): an id that is remembered is skipped; otherwise the
\* id is remembered and a disassociation is handed to the callbacks.
RuckusClientEvent ==
    /\ \E ev \in ClientEvents :
        IF \E k \in 1..Len(_processed_event_ids) :
               _processed_event_ids[k] = event_id_of(ev)
        THEN UNCHANGED <<_processed_event_ids, poll_log>>
        ELSE /\ Len(poll_log) < MaxPollLog
             /\ _processed_event_ids' =
                    deque_append(_processed_event_ids, event_id_of(ev), ProcessedMaxLen)
             /\ poll_log' = Append(poll_log,
                    [id |-> event_id_of(ev),
                     emitted |-> is_disassoc(ev.event) /\ ev.client # <<>>])
    /\ UNCHANGED <<regVars, storeVars, nmVars, clVars, laVars, presVars, thrVars,
                   whVars, snVars, errVars, apiVars, sgVars, rqVars>>

\* stop() and start(): the object and its _processed_event_ids stay.
RuckusRestart ==
    /\ _running' = ~_running
    /\ UNCHANGED <<backend, _task, tasks, cancel_requested, capture_threads,
                   stop_returned, fired_after_stop,
                   regVars, storeVars, nmVars, clVars, laVars, presVars, thrVars,
                   whVars, errVars, apiVars, rkVars, sgVars, rqVars>>

NextRuckus == RuckusClientEvent \/ RuckusRestart

SpecRuckus == Init /\ [][NextRuckus]_vars

\* The positions of poll_log at which the event with this id was emitted.
EmissionsOf(event_id) ==
    {k \in 1..Len(poll_log) : poll_log[k].id = event_id /\ poll_log[k].emitted}

\* C34 as claimed: no client event is emitted twice, whatever was seen in
\* between.
EmittedAtMostOnce ==
    \A k \in 1..Len(poll_log) : Cardinality(EmissionsOf(poll_log[k].id)) <= 1

\* C34: a client event is not emitted again while its id is among the last
\* ProcessedMaxLen ids the backend recorded: between two emissions of the
\* same event the backend recorded at least ProcessedMaxLen other events.
EmittedOnceWhileRemembered ==
    /\ \A i, j \in 1..Len(poll_log) :
        (i < j /\ poll_log[i].id = poll_log[j].id) => j - i > ProcessedMaxLen
    /\ \A k \in 1..Len(poll_log) :
        poll_log[k].emitted <=> is_disassoc(poll_log[k].id[3])
    /\ Len(_processed_event_ids) <= ProcessedMaxLen

\* A disassociation was emitted, as many other events as the memory holds
\* followed, and the same disassociation was emitted again.
EmittedAgainAfterForgetting ==
    /\ Len(poll_log) = ProcessedMaxLen + 2
    /\ poll_log[1].emitted
    /\ poll_log[Len(poll_log)] = poll_log[1]

(***************************************************************************)
(* main.py: the device name the handler puts into the payloads             *)
(***************************************************************************)

\* An operator creates a rule for every device that fires on arrivals and
\* departures.
NamesCreateRule ==
    /\ Cardinality(DOMAIN rules) < MaxRules
    /\ rules' = create_rule(rules, "rule", "http://hook", "both", NoneId, None)
    /\ UNCHANGED <<regVars, links, nmVars, clVars, moreVars>>

NextNames == PresenceIngest \/ Tick \/ NamesCreateRule

SpecNames == Init /\ [][NextNames]_vars

\* C35: every payload the handler posts names the device whose MAC it
\* carries: that device's display name, hostname or vendor, and the MAC
\* where it has none of them.
PayloadNamesItsDevice ==
    \A k \in 1..Len(posted) :
        LET device == devices[posted[k].mac_address]
        IN  posted[k].name =
                IF Truthy(device_name_of(device)) THEN device_name_of(device)
                ELSE "<mac>"

(***************************************************************************)
(* registry/store.py: visits counted over events that arrive out of order  *)
(***************************************************************************)

\* A cap on the number of events followed.
MaxSightings == 4

\* The instants the events are stamped with: 1000 seconds apart, so that
\* neighbours are within the visit gap and next-but-one are not.
SightingTimes == {k * 1000 : k \in 0..3}

\* A probe request heard by the monitor backend, stamped on receipt, or a
\* disassociation read from the Ruckus event log, stamped with the time the
\* controller recorded (ruckus.py:139-154).
SightingShapes == {<<"monitor", -80, NoneStr>>, <<"ruckus_event", 0, "TestNet">>}

\* A backend delivers an event for 08:00:27:aa:bb:cc.
SightingIngest ==
    /\ Len(sightings) < MaxSightings
    /\ \E shape \in SightingShapes, ts \in SightingTimes :
        /\ HandleBeaconEvent(BeaconEvent(Spell(AddrBurned, "colon_upper"), shape, ts))
        /\ sightings' = Append(sightings, ts)
    /\ UNCHANGED <<storeVars, nmVars, clVars, laVars, presVars, thrVars, whVars,
                   snVars, errVars, apiVars, rkVars, rqVars>>

NextSightings == SightingIngest

SpecSightings == Init /\ [][NextSightings]_vars

\* Every sighting but the earliest is within the visit gap of the sighting
\* before it in time.
ContinuousPresence ==
    \A k \in 1..Len(sightings) :
        \/ \A j \in 1..Len(sightings) : sightings[j] >= sightings[k]
        \/ \E j \in 1..Len(sightings) :
            /\ sightings[j] < sightings[k]
            /\ sightings[k] - sightings[j] <= _VISIT_GAP_SECONDS

RowsOf(mac) == SelectSeq(presence_log, LAMBDA row : row.mac_address = mac)

\* C37: from process start the logged transitions of each MAC alternate
\* strictly, beginning with an arrival: arrive, depart, arrive, ...
TransitionsAlternate ==
    \A mac \in DOMAIN devices :
        \A k \in 1..Len(RowsOf(mac)) :
            RowsOf(mac)[k].event_type = IF k % 2 = 1 THEN "arrive" ELSE "depart"

(***************************************************************************)
(* persona/engine.py: assign_device called by two requests at once.  The   *)
(* route is a plain def, which FastAPI runs on a worker thread, each with  *)
(* its own session; the checks and the insert of one call are separate     *)
(* statements against the database.                                        *)
(***************************************************************************)

\* The MAC both requests name.
ContestedMac == Spell(AddrBurned, "colon_lower")

\* assign_device up to the point where it has decided: the device lookup
\* and the two link lookups (engine.py:63-85), on the tables as they are
\* now.  A call that found nothing in its way holds the row it will insert.
AssignCheck(person_id) ==
    /\ requests[person_id].pc = "idle"
    /\ \E existing_link \in first_link(links, normalize_mac(ContestedMac)) :
        LET decided == assign_device(devices, links, person_id, ContestedMac,
                                     existing_link)
        IN  requests' = [requests EXCEPT ![person_id] =
                IF decided.result = "new link"
                THEN [pc |-> "insert",
                      link |-> [person_id |-> person_id,
                                mac_address |-> normalize_mac(ContestedMac)]]
                ELSE [pc |-> decided.result]]
    /\ UNCHANGED <<regVars, storeVars, nmVars, clVars, laVars, presVars, thrVars,
                   whVars, snVars, errVars, apiVars, rkVars, sgVars>>

\* session.add(link); session.commit() (engine.py:87-89): the INSERT fails
\* only on a row with the same primary key (person_id, mac_address).
AssignInsert(person_id) ==
    /\ requests[person_id].pc = "insert"
    /\ IF requests[person_id].link \in links
       THEN /\ requests' = [requests EXCEPT ![person_id] = [pc |-> "IntegrityError"]]
            /\ UNCHANGED links
       ELSE /\ links' = links \cup {requests[person_id].link}
            /\ requests' = [requests EXCEPT ![person_id] = [pc |-> "new link"]]
    /\ UNCHANGED <<regVars, rules, nmVars, clVars, laVars, presVars, thrVars,
                   whVars, snVars, errVars, apiVars, rkVars, sgVars>>

\* The response is sent; the person's next request can come.
AssignRespond(person_id) ==
    /\ requests[person_id].pc \notin {"idle", "insert"}
    /\ requests' = [requests EXCEPT ![person_id] = [pc |-> "idle"]]
    /\ UNCHANGED <<regVars, storeVars, nmVars, clVars, laVars, presVars, thrVars,
                   whVars, snVars, errVars, apiVars, rkVars, sgVars>>

\* DELETE /persons/{person_id}/devices/{mac}, in one step.
RaceUnassign ==
    /\ \E person_id \in PersonIds :
        links' = unassign_device(links, person_id, ContestedMac).links
    /\ UNCHANGED <<regVars, rules, nmVars, clVars, moreVars>>

NextRace ==
    \/ PersonaIngest
    \/ \E person_id \in PersonIds : AssignCheck(person_id)
    \/ \E person_id \in PersonIds : AssignInsert(person_id)
    \/ \E person_id \in PersonIds : AssignRespond(person_id)
    \/ RaceUnassign

SpecRace == Init /\ [][NextRace]_vars

\* C38: when two assign_device calls for one unowned MAC and two persons
\* interleave, at most one of them creates its link: the MAC is never
\* linked to two persons.
RaceLeavesOneOwner ==
    \A l1 \in links, l2 \in links :
        (l1.mac_address = normalize_mac(ContestedMac) /\ l2.mac_address = l1.mac_address)
            => l1.person_id = l2.person_id

(***************************************************************************)
(* persona/engine.py: links and the persons they refer to                  *)
(***************************************************************************)

\* C39: after any sequence of create_person, delete_person, assign_device
\* and unassign_device calls every PersonDevice row refers to a Person row
\* that exists.
LinksReferToPersons ==
    \A l \in links : l.person_id \in persons

(***************************************************************************)
(* registry/store.py: the classification of a device seen in time order    *)
(***************************************************************************)

\* Sightings of the burned-in address 08:00:27:aa:bb:cc, strong, weak or
\* without RF data, at instants 18 hours apart.
OrderedEvents ==
    {BeaconEvent(Spell(AddrBurned, "colon_upper"), shape, ts) :
        shape \in {<<"ruckus", -45, "TestNet">>, <<"monitor", -80, NoneStr>>,
                   <<"opnsense", 0, NoneStr>>},
        ts \in ScenarioTimes}

\* A backend delivers an event that is not older than the last one
\* ingested for the device.
OrderedIngest ==
    /\ \E event \in OrderedEvents :
        /\ normalize_mac(event.mac_address) \in DOMAIN devices
              => event.timestamp >= devices[normalize_mac(event.mac_address)].last_seen
        /\ HandleBeaconEvent(event)
    /\ UNCHANGED <<storeVars, nmVars, clVars, moreVars>>

NextOrdered == OrderedIngest

SpecOrdered == Init /\ [][NextOrdered]_vars

\* C40: with events ingested in non-decreasing timestamp order the
\* classification of a device with a non-randomized MAC never regresses: a
\* frequent or resident device stays frequent or resident, and a resident
\* device stays resident.
ClassificationNeverRegresses ==
    [][\A mac \in DOMAIN devices :
        ~devices[mac].is_randomized_mac =>
            /\ devices[mac].classification \in {"frequent", "resident"}
                  => devices'[mac].classification \in {"frequent", "resident"}
            /\ devices[mac].classification = "resident"
                  => devices'[mac].classification = "resident"
    ]_vars

\* A resident device was sighted again, weakly, and is still resident.
ResidentSightedWeakly ==
    \E mac \in DOMAIN devices :
        /\ ~devices[mac].is_randomized_mac
        /\ devices[mac].classification = "resident"
        /\ devices[mac].signal_strength = -80
        /\ lastEvent.source = "monitor"

====
